---- MODULE Spec2Model ----
(***************************************************************************)
(* Verification model of the per-node protocol engine of quisp:            *)
(*   - core/events/RuleEventBus       (classification, queue, drain)       *)
(*   - modules/QRSA/ConnectionManager (response deduplication)             *)
(*   - modules/QRSA/RuleEngine        (handleMessage, handleRuleEvent)     *)
(*   - the qubits of the link protocols (QNicStore, BellPairStore,         *)
(*     RuntimeFacade::allocateResources)                                   *)
(* Each subsystem has its own specification (SpecBus, SpecCM, SpecRE,      *)
(* SpecDispatch, SpecHold, SpecLink, SpecAlloc) over                       *)
(* the shared variables; the variables of the other subsystems stay at     *)
(* their initial value.                                                    *)
(***************************************************************************)
EXTENDS Integers, Sequences, FiniteSets, TLC

VARIABLES
  event_queue,            \* RuleEventBus::event_queue (std::vector<RuleEvent>)
  translators,            \* RuleEventBus::translators (class name -> translator)
  fallback_event_number,  \* static counter of getEventNumberOrFallback
  kernel,                 \* the simulation kernel: present?, event number
  bus_history,            \* history of publish / drain calls on the bus
  next_uid,               \* identity given to the next published event
  connection_setup_response_state,  \* ConnectionManager: session id -> ConnectionSetupResponseState
  cm_router_out,          \* ConnectionManager: messages sent out RouterPort
  cm_log,                 \* history of the ConnectionSetupResponses handed to the ConnectionManager
  reserved_qnics,         \* ConnectionManager::reserved_qnics
  cm_last,                \* the last call made on the ConnectionManager and the state it started from
  engine,                 \* RuleEngine: its state and what the call in progress has done
  re_last,                \* the last call made on the RuleEngine and its outcome
  link,                   \* RuleEngine, QNicStore, BellPairStore: the qubits of the link protocols
  link_last,              \* the last operation on the qubits, and the state it started from
  pair,                   \* the RuleEngines at the two ends of an MSM link, and the results in flight
  backend,                \* the physical backends: the cached capability check of the QutipBackend
  backend_last            \* the last call made on a backend, its result and the state it started from

bus_vars == <<event_queue, translators, fallback_event_number, kernel, bus_history, next_uid>>

cm_vars == <<connection_setup_response_state, cm_router_out, cm_log, reserved_qnics, cm_last>>

re_vars == <<engine, re_last>>

link_vars == <<link, link_last, pair>>

backend_vars == <<backend, backend_last>>

vars == <<bus_vars, cm_vars, re_vars, link_vars, backend_vars>>

----------------------------------------------------------------------------
(* Bounds of the model *)

MaxTime == 1
MaxEventNumber == 1
MaxBusOps == 4
MaxSession == 2
MaxAttempt == 1
MaxResponses == 3
MaxREOps == 2
MaxFreeQubits == 2
NumQubits == 2
MaxLinkOps == 4
MaxRuntimes == 2

Times == 0..MaxTime
EventNumbers == 0..MaxEventNumber

----------------------------------------------------------------------------
(* core/events: enumerations *)

RuleEventKinds ==
  {"UNKNOWN", "BSM_RESULT", "BSM_TIMING", "EPPS_TIMING", "EMIT_PHOTON_REQUEST",
   "LINK_TOMOGRAPHY_RULESET", "MSM_RESULT", "PURIFICATION_RESULT", "SINGLE_CLICK_RESULT",
   "STOP_EMITTING", "SWAPPING_RESULT", "RULESET_FORWARDING", "RULESET_FORWARDING_APPLICATION"}

RuleEventChannels == {"UNKNOWN", "EXTERNAL", "INTERNAL_TIMER"}

ProtocolTypes ==
  {"Unknown", "MIM_v1", "MSM_v1", "Purification", "Swapping", "LinkTomography",
   "ConnectionManagement", "Maintenance"}

ExecutionPaths == {"Unknown", "EntanglementLifecycle", "ConnectionControl", "Forwarding", "Maintenance"}

\* the payload of an event that carries no message (std::monostate)
Monostate == [cls |-> "monostate"]

----------------------------------------------------------------------------
(* decimal rendering of an int, std::to_string *)

DigitChar(d) == <<"0", "1", "2", "3", "4", "5", "6", "7", "8", "9">>[d + 1]

RECURSIVE NatToString(_)
NatToString(n) == IF n < 10 THEN <<DigitChar(n)>> ELSE NatToString(n \div 10) \o <<DigitChar(n % 10)>>

to_string(n) == IF n < 0 THEN <<"-">> \o NatToString(0 - n) ELSE NatToString(n)

EmptyString == <<>>

----------------------------------------------------------------------------
(* core/events/ProtocolSpec.h *)

protocol_from_int(protocol_hint) ==
  IF protocol_hint >= 0 /\ protocol_hint <= 10 THEN "Purification" ELSE "Unknown"

protocol_from_message_hint(application_type) ==
  IF application_type = 0 THEN "ConnectionManagement" ELSE "Unknown"

----------------------------------------------------------------------------
(* core/events/RuleEventBus.cc: classification of a raw message.            *)
(* A message is a record [id, cls, is_self, msm, hint, success]; the null   *)
(* pointer is NullMsg.  hint is the integer the class carries (protocol of  *)
(* a PurificationResult, application_type of an                             *)
(* InternalRuleSetForwarding_Application, success count of a                *)
(* CombinedBSAresults, photon index of an MSMResult), 0 for the other       *)
(* classes; success is the success flag of a SingleClickResult or MSMResult. *)

NullMsg == [id |-> 0, cls |-> "null", is_self |-> FALSE, msm |-> FALSE, hint |-> 0, success |-> FALSE]

\* getEventNumberOrFallback: the kernel's event number when a simulation is
\* active, else the static counter (which the call then increments)
getEventNumberOrFallback == IF kernel.present THEN kernel.event_number ELSE fallback_event_number

FallbackAfterCall == IF kernel.present THEN fallback_event_number ELSE fallback_event_number + 1

executionPathFromType(type) ==
  IF type = "RULESET_FORWARDING" \/ type = "RULESET_FORWARDING_APPLICATION"
    THEN "Forwarding"
    ELSE "EntanglementLifecycle"

protocolFromEmitPhotonRequest(msg) ==
  IF msg.cls = "null" \/ ~msg.msm THEN "MIM_v1" ELSE "MSM_v1"

\* an event that takes its channel and keep_source from the decoder alone
makeExternalRuleEvent(type, msg, now, keep_source_override, protocol_spec, execution_path, protocol_raw_value, evnum) ==
  [type               |-> type,
   channel            |-> "EXTERNAL",
   keep_source        |-> keep_source_override,
   time               |-> now,
   event_number       |-> evnum,
   protocol_spec      |-> protocol_spec,
   execution_path     |-> execution_path,
   protocol_raw_value |-> protocol_raw_value,
   payload            |-> msg,
   uid                |-> 0]

makeRuleEvent(type, msg, now, keep_source_override, protocol_spec, execution_path, protocol_raw_value, evnum) ==
  LET is_internal == msg.cls # "null" /\ msg.is_self
  IN  [type               |-> type,
       channel            |-> IF is_internal THEN "INTERNAL_TIMER" ELSE "EXTERNAL",
       keep_source        |-> keep_source_override \/ is_internal,
       time               |-> now,
       event_number       |-> evnum,
       protocol_spec      |-> protocol_spec,
       execution_path     |-> execution_path,
       protocol_raw_value |-> protocol_raw_value,
       payload            |-> msg,
       uid                |-> 0]

\* an UNKNOWN event that keeps the message as its payload
UnknownKeepingPayload(msg, now, evnum) ==
  makeRuleEvent("UNKNOWN", msg, now, FALSE, "Unknown", "Unknown", EmptyString, evnum)

makeUnknownRuleEvent(msg, now, evnum) ==
  [type               |-> "UNKNOWN",
   channel            |-> IF msg.cls = "null" THEN "UNKNOWN"
                          ELSE IF msg.is_self THEN "INTERNAL_TIMER" ELSE "EXTERNAL",
   keep_source        |-> msg.cls # "null" /\ msg.is_self,
   time               |-> now,
   event_number       |-> evnum,
   protocol_spec      |-> "Unknown",
   execution_path     |-> "Unknown",
   protocol_raw_value |-> IF msg.cls = "null" THEN EmptyString ELSE <<msg.cls>>,
   payload            |-> Monostate,
   uid                |-> 0]

\* the classes translateByType recognises, in the order of its dynamic_cast chain
BuiltinClasses ==
  {"CombinedBSAresults", "BSMTimingNotification", "EPPSTimingNotification", "EmitPhotonRequest",
   "LinkTomographyRuleSet", "MSMResult", "PurificationResult", "SingleClickResult", "StopEmitting",
   "SwappingResult", "InternalRuleSetForwarding", "InternalRuleSetForwarding_Application"}

\* translateByType: the event of a built-in class (std::nullopt is NoEvent)
NoEvent == [type |-> "none"]

translateByType(msg, now, evnum) ==
  CASE msg.cls = "CombinedBSAresults" ->
         makeRuleEvent("BSM_RESULT", msg, now, FALSE, "MIM_v1", executionPathFromType("BSM_RESULT"), EmptyString, evnum)
    [] msg.cls = "BSMTimingNotification" ->
         makeRuleEvent("BSM_TIMING", msg, now, FALSE, "MIM_v1", executionPathFromType("BSM_TIMING"), EmptyString, evnum)
    [] msg.cls = "EPPSTimingNotification" ->
         makeRuleEvent("EPPS_TIMING", msg, now, FALSE, "MSM_v1", executionPathFromType("EPPS_TIMING"), EmptyString, evnum)
    [] msg.cls = "EmitPhotonRequest" ->
         makeRuleEvent("EMIT_PHOTON_REQUEST", msg, now, TRUE, protocolFromEmitPhotonRequest(msg),
                       executionPathFromType("EMIT_PHOTON_REQUEST"), EmptyString, evnum)
    [] msg.cls = "LinkTomographyRuleSet" ->
         makeRuleEvent("LINK_TOMOGRAPHY_RULESET", msg, now, FALSE, "LinkTomography",
                       executionPathFromType("LINK_TOMOGRAPHY_RULESET"), EmptyString, evnum)
    [] msg.cls = "MSMResult" ->
         makeRuleEvent("MSM_RESULT", msg, now, FALSE, "MSM_v1", executionPathFromType("MSM_RESULT"), EmptyString, evnum)
    [] msg.cls = "PurificationResult" ->
         makeRuleEvent("PURIFICATION_RESULT", msg, now, FALSE, protocol_from_int(msg.hint),
                       executionPathFromType("PURIFICATION_RESULT"),
                       IF protocol_from_int(msg.hint) = "Unknown" THEN to_string(msg.hint) ELSE EmptyString, evnum)
    [] msg.cls = "SingleClickResult" ->
         makeRuleEvent("SINGLE_CLICK_RESULT", msg, now, FALSE, "MSM_v1",
                       executionPathFromType("SINGLE_CLICK_RESULT"), EmptyString, evnum)
    [] msg.cls = "StopEmitting" ->
         makeRuleEvent("STOP_EMITTING", msg, now, FALSE, "MSM_v1", executionPathFromType("STOP_EMITTING"), EmptyString, evnum)
    [] msg.cls = "SwappingResult" ->
         makeRuleEvent("SWAPPING_RESULT", msg, now, FALSE, "Swapping", executionPathFromType("SWAPPING_RESULT"), EmptyString, evnum)
    [] msg.cls = "InternalRuleSetForwarding" ->
         makeRuleEvent("RULESET_FORWARDING", msg, now, FALSE, "ConnectionManagement",
                       executionPathFromType("RULESET_FORWARDING"), EmptyString, evnum)
    [] msg.cls = "InternalRuleSetForwarding_Application" ->
         makeRuleEvent("RULESET_FORWARDING_APPLICATION", msg, now, FALSE, protocol_from_message_hint(msg.hint),
                       executionPathFromType("RULESET_FORWARDING_APPLICATION"),
                       IF protocol_from_message_hint(msg.hint) = "Unknown" THEN to_string(msg.hint) ELSE EmptyString, evnum)
    [] OTHER -> NoEvent

\* translatorFor<MessageT>(event_type, protocol_spec, execution_path, keep_source)
translatorFor(event_type, protocol_spec, execution_path, keep_source) ==
  [type |-> event_type, protocol_spec |-> protocol_spec, execution_path |-> execution_path, keep_source |-> keep_source]

\* the result of calling a registered translator on a non-null message
ApplyTranslator(t, msg, now, evnum) ==
  makeRuleEvent(t.type, msg, now, t.keep_source, t.protocol_spec, t.execution_path, EmptyString, evnum)

\* registerDefaultTranslators: the registry after construction.  (The entry of
\* EmitPhotonRequest is a lambda that decodes like translateByType; every
\* default class is caught by translateByType before the registry is read.)
registerDefaultTranslators ==
  [c \in BuiltinClasses |->
     CASE c = "CombinedBSAresults" -> translatorFor("BSM_RESULT", "MIM_v1", executionPathFromType("BSM_RESULT"), FALSE)
       [] c = "BSMTimingNotification" -> translatorFor("BSM_TIMING", "MIM_v1", executionPathFromType("BSM_TIMING"), FALSE)
       [] c = "EPPSTimingNotification" -> translatorFor("EPPS_TIMING", "MSM_v1", executionPathFromType("EPPS_TIMING"), FALSE)
       [] c = "EmitPhotonRequest" ->
            translatorFor("EMIT_PHOTON_REQUEST", "MIM_v1", executionPathFromType("EMIT_PHOTON_REQUEST"), TRUE)
       [] c = "LinkTomographyRuleSet" ->
            translatorFor("LINK_TOMOGRAPHY_RULESET", "LinkTomography", executionPathFromType("LINK_TOMOGRAPHY_RULESET"), FALSE)
       [] c = "MSMResult" -> translatorFor("MSM_RESULT", "MSM_v1", executionPathFromType("MSM_RESULT"), FALSE)
       [] c = "PurificationResult" ->
            translatorFor("PURIFICATION_RESULT", "Purification", executionPathFromType("PURIFICATION_RESULT"), FALSE)
       [] c = "SingleClickResult" ->
            translatorFor("SINGLE_CLICK_RESULT", "MSM_v1", executionPathFromType("SINGLE_CLICK_RESULT"), FALSE)
       [] c = "InternalRuleSetForwarding" ->
            translatorFor("RULESET_FORWARDING", "ConnectionManagement", executionPathFromType("RULESET_FORWARDING"), FALSE)
       [] c = "InternalRuleSetForwarding_Application" ->
            translatorFor("RULESET_FORWARDING_APPLICATION", "Unknown",
                          executionPathFromType("RULESET_FORWARDING_APPLICATION"), FALSE)
       [] c = "StopEmitting" -> translatorFor("STOP_EMITTING", "MSM_v1", executionPathFromType("STOP_EMITTING"), FALSE)
       [] c = "SwappingResult" -> translatorFor("SWAPPING_RESULT", "Swapping", executionPathFromType("SWAPPING_RESULT"), FALSE)]

\* RuleEventBus::toRuleEvent, with the registry and the event number it reads
toRuleEvent(reg, msg, now, evnum) ==
  IF msg.cls = "null" THEN makeUnknownRuleEvent(NullMsg, now, evnum)
  ELSE IF translateByType(msg, now, evnum) # NoEvent THEN translateByType(msg, now, evnum)
  ELSE IF msg.cls \in DOMAIN reg THEN ApplyTranslator(reg[msg.cls], msg, now, evnum)
  ELSE makeUnknownRuleEvent(msg, now, evnum)

----------------------------------------------------------------------------
(* modules/QRSA/ConnectionManager: deduplication of ConnectionSetupResponses. *)
(* ConnectionManager.h declares the state and the operations; their bodies    *)
(* follow the description of the component and its tests.                     *)
(* A response is a record [session_id, attempt, ruleset_id, application_type]. *)

\* struct ConnectionSetupResponseState: the value-initialised entry that
\* connection_setup_response_state[session_id] creates for an unseen session
StaleDefaultResponseState == [latest_attempt |-> 0, accepted_for_latest_attempt |-> TRUE]

DefaultResponseState == [latest_attempt |-> -1, accepted_for_latest_attempt |-> FALSE]

ResponseStateOf(table, session_id) ==
  IF session_id \in DOMAIN table THEN table[session_id] ELSE DefaultResponseState

NeverLegacy(pk) == FALSE

isLegacyConnectionSessionResponse(pk) == pk.session_id = 0

\* shouldAcceptConnectionSetupResponse: the verdict, and the table after the call
AcceptsAnyAttempt(table, pk) == TRUE

shouldAcceptConnectionSetupResponse(table, pk) ==
  IF isLegacyConnectionSessionResponse(pk) THEN TRUE
  ELSE LET state == ResponseStateOf(table, pk.session_id)
       IN  IF pk.attempt < state.latest_attempt THEN FALSE
           ELSE IF pk.attempt = state.latest_attempt /\ state.accepted_for_latest_attempt THEN FALSE
           ELSE TRUE

\* a table that records the attempt of every response
StateOfLastResponse(table, pk) ==
  [s \in DOMAIN table \cup {pk.session_id} |->
     IF s = pk.session_id THEN [latest_attempt |-> pk.attempt, accepted_for_latest_attempt |-> TRUE]
     ELSE table[s]]

ResponseStateAfter(table, pk) ==
  IF isLegacyConnectionSessionResponse(pk) THEN table
  ELSE IF shouldAcceptConnectionSetupResponse(table, pk)
    THEN [s \in DOMAIN table \cup {pk.session_id} |->
            IF s = pk.session_id
              THEN [latest_attempt |-> pk.attempt, accepted_for_latest_attempt |-> TRUE]
              ELSE table[s]]
    ELSE [s \in DOMAIN table \cup {pk.session_id} |-> ResponseStateOf(table, s)]

Responses ==
  [session_id : 0..MaxSession, attempt : 0..MaxAttempt, ruleset_id : {0}, application_type : {7}]

\* the body shared by storeRuleSet and storeRuleSetForApplication: drop the
\* response unless it is accepted, else send the forwarding message of `kind`
\* out RouterPort with the response's RuleSet
StoreAndForward(pk, kind) ==
  LET accepted == shouldAcceptConnectionSetupResponse(connection_setup_response_state, pk)
  IN  /\ Len(cm_log) < MaxResponses
      /\ connection_setup_response_state' = ResponseStateAfter(connection_setup_response_state, pk)
      /\ cm_log' = Append(cm_log, [pk |-> pk, variant |-> kind, accepted |-> accepted])
      /\ cm_router_out' =
           IF accepted
             THEN Append(cm_router_out,
                         [cls |-> kind, ruleset_id |-> pk.ruleset_id,
                          application_type |-> IF kind = "InternalRuleSetForwarding_Application"
                                                 THEN pk.application_type ELSE 0,
                          response |-> Len(cm_log) + 1])
             ELSE cm_router_out
      /\ UNCHANGED <<backend_vars, link_vars, bus_vars, re_vars, reserved_qnics, cm_last>>

\* ConnectionManager::storeRuleSet
storeRuleSet(pk) == StoreAndForward(pk, "InternalRuleSetForwarding")

\* ConnectionManager::storeRuleSetForApplication
storeRuleSetForApplication(pk) == StoreAndForward(pk, "InternalRuleSetForwarding_Application")

InitCMVars ==
  /\ connection_setup_response_state = <<>>
  /\ cm_router_out = <<>>
  /\ cm_log = <<>>
  /\ reserved_qnics = <<>>
  /\ cm_last = [op |-> "none", n |-> 0]


----------------------------------------------------------------------------
(* modules/QRSA/RuleEngine/RuleEngine.cc.                                    *)
(* The engine is a record.  Persistent fields: the three handler tables, the  *)
(* number of runtimes submitted, the length of emitted_photon_order_map of    *)
(* the interface, msm_info (photon_index_counter, iteration_index, the photon *)
(* indices of qubit_postprocess_info) and the ids of the scheduled            *)
(* self-messages.  Fields of the call in progress: the calls made on the      *)
(* collaborators (effects), the lines written to the logger (log) and the     *)
(* exception that ended it (thrown).  The QNicStore, the BellPairStore and    *)
(* the real-time controller are collaborators: what they return is an input.  *)

NoHandlers == <<>>

InitialEngine ==
  [rule_event_handlers               |-> NoHandlers,
   rule_event_type_fallback_handlers |-> NoHandlers,
   rule_protocol_fallback_handlers   |-> NoHandlers,
   runtimes             |-> 0,
   emitted              |-> 0,
   photon_index_counter |-> 0,
   iteration_index      |-> 0,
   postprocess          |-> {},
   scheduled            |-> {},
   timer_first          |-> FALSE,
   invoked              |-> <<>>,
   effects              |-> <<>>,
   log                  |-> <<>>,
   thrown               |-> "none"]

NoCall == [op |-> "none", n |-> 0, now |-> 0]

InitREVars ==
  /\ engine = InitialEngine
  /\ re_last = NoCall

\* a call on a collaborator
Effect(st, e) == [st EXCEPT !.effects = Append(@, e)]

\* an exception leaves the handler
Throw(st, what) == [st EXCEPT !.thrown = what]

\* std::get<T *>(event.payload): the alternative held is the one of class cls
HoldsAlternative(event, cls) == event.payload.cls = cls

\* cSimpleModule::scheduleAt: the message will come back as a self-message;
\* scheduling a message that is already scheduled is a runtime error
scheduleAt(st, msg) ==
  IF \E m \in st.scheduled : m.id = msg.id THEN Throw(st, "cRuntimeError")
  ELSE Effect([st EXCEPT !.scheduled = @ \cup {[msg EXCEPT !.is_self = TRUE]}], [call |-> "scheduleAt"])

\* the emission timer of the interface, emit_photon_timer_map[{type, qnic_index}]
TimerId == 10

EmitPhotonTimer(is_msm) ==
  [id |-> TimerId, cls |-> "EmitPhotonRequest", is_self |-> TRUE, msm |-> is_msm, hint |-> 0, success |-> FALSE]

schedulePhotonEmission(st) == scheduleAt([st EXCEPT !.timer_first = TRUE], EmitPhotonTimer(FALSE))

scheduleMSMPhotonEmission(st) == scheduleAt([st EXCEPT !.timer_first = TRUE], EmitPhotonTimer(TRUE))

sendEmitPhotonSignalToQnic(st, is_rp, is_first, is_last) ==
  LET sent == Effect(st, [call |-> "EmitPhoton", first |-> is_first, last |-> is_last])
  IN  IF is_rp THEN sent ELSE [sent EXCEPT !.emitted = @ + 1]

\* an emission that is left going on
LeftGoingOn(st) == Effect(st, [call |-> "cancelEvent"])

\* no cancelEvent before the timer is scheduled
CancelForgotten(st) == st

stopOnGoingPhotonEmission(st) ==
  Effect([st EXCEPT !.scheduled = {m \in @ : m.id # TimerId}], [call |-> "cancelEvent"])

RECURSIVE Repeat(_, _, _)
Repeat(st, e, n) == IF n <= 0 THEN st ELSE Repeat(Effect(st, e), e, n - 1)

freeFailedEntanglementAttemptQubits(st) ==
  [Repeat(st, [call |-> "ReInitialize_StationaryQubit"], st.emitted) EXCEPT !.emitted = 0]

handleSingleClickResult(st, click_result) ==
  LET after ==
        IF click_result.success
          THEN [st EXCEPT !.postprocess = @ \cup {st.photon_index_counter},
                          !.iteration_index = @ + 1]
          ELSE Effect(st, [call |-> "ReInitialize_StationaryQubit"])
  IN  Effect(after, [call |-> "send", cls |-> "MSMResult", success |-> click_result.success])

handleMSMResult(st, msm_result) ==
  IF msm_result.hint \notin st.postprocess THEN st
  ELSE IF ~msm_result.success THEN Effect(st, [call |-> "ReInitialize_StationaryQubit"])
  ELSE Effect(st, [call |-> "insertEntangledQubit"])

handleLinkGenerationResult(st, bsa_result) ==
  [Repeat(st, [call |-> "insertEntangledQubit"], bsa_result.hint) EXCEPT !.emitted = @ - bsa_result.hint]

handleStopEmitting(st, stop_emit) ==
  IF st.photon_index_counter = 0 THEN st
  ELSE Effect(st, [call |-> "send", cls |-> "StopEPPSEmission", success |-> FALSE])

handlePurificationResult(st, result) == Effect(st, [call |-> "assignMessageToRuleSet"])

handleSwappingResult(st, result) == Effect(st, [call |-> "assignMessageToRuleSet"])

\* runtimes.submitRuleSet(ruleset.construct())
submitRuleSet(st) == Effect([st EXCEPT !.runtimes = @ + 1], [call |-> "submitRuleSet"])

\* RuleEngine::ResourceAllocation, for one interface
ResourceAllocation(st) == Effect(st, [call |-> "allocateResources"])

\* RuleEngine::executeAllRuleSets
executeAllRuleSets(st) == Effect(st, [call |-> "exec"])


\* the handler that ran for an event (one entry per handler entered)
Invoke(st, level, event) ==
  [st EXCEPT !.invoked = Append(@, [level |-> level, type |-> event.type, protocol_spec |-> event.protocol_spec])]

\* logger->logEvent(event_type, payload)
logEvent(st, event_type, event) ==
  [st EXCEPT !.log = Append(@, [event_type |-> event_type, kind |-> event.type,
                                protocol_raw_value |-> event.protocol_raw_value])]

\* what handleRuleEvent hands back: the engine after it, and its return value
Returned(st, ret) == [st |-> st, ret |-> ret]

BadVariantAccess(st) == Returned(Throw(st, "bad_variant_access"), FALSE)

\* pk->isFirst(): the emission timer carries the flag the engine last set; another request is a first one
isFirst(st, pk) == IF pk.id = TimerId THEN st.timer_first ELSE TRUE

setFirstFalse(st, pk) == IF pk.id = TimerId THEN [st EXCEPT !.timer_first = FALSE] ELSE st

\* an MSMResult that carries the photon index of the request before
sendStaleMSMResult(st) ==
  Effect(st, [call |-> "send", cls |-> "MSMResult", success |-> FALSE, correction_operation |-> "I",
              photon_index |-> st.photon_index_counter - 1, gate |-> "RouterPort$o"])

\* the MSMResult of a request that found no free qubit: setPhotonIndex(msm_info.photon_index_counter),
\* setSuccess(false), setCorrectionOperation(PauliOperator::I), send(msm_result, "RouterPort$o")
sendFailedMSMResult(st) ==
  Effect(st, [call |-> "send", cls |-> "MSMResult", success |-> FALSE, correction_operation |-> "I",
              photon_index |-> st.photon_index_counter, gate |-> "RouterPort$o"])

\* case EventType::EMIT_PHOTON_REQUEST; number_of_free_emitters is what countNumFreeQubits returned.
\* An MSM request is one of a QNIC_RP interface.
EmitPhotonRequestFamilyMissed(st, event, number_of_free_emitters) ==
  Returned(logEvent(st, "unknown_rule_protocol", event), FALSE)

EmitPhotonRequestCase(st, event, number_of_free_emitters) ==
  LET pk == event.payload
      took == Effect(Effect(Invoke(st, "builtin", event), [call |-> "countNumFreeQubits"]),
                     [call |-> "takeFreeQubitIndex"])
  IN  IF pk.msm
        THEN LET counted == [took EXCEPT !.photon_index_counter = @ + 1]
                 signalled ==
                   IF number_of_free_emitters # 0
                     THEN sendEmitPhotonSignalToQnic(counted, TRUE, TRUE, TRUE)
                     ELSE sendFailedMSMResult(counted)
             IN  Returned(scheduleAt(signalled, pk), TRUE)
        ELSE IF number_of_free_emitters = 0 THEN Returned(took, TRUE)
        ELSE LET is_first == isFirst(took, pk)
                 is_last == (number_of_free_emitters = 1)
                 signalled == sendEmitPhotonSignalToQnic(setFirstFalse(took, pk), FALSE, is_first, is_last)
             IN  Returned(IF is_last THEN signalled ELSE scheduleAt(signalled, pk), TRUE)

\* case EventType::RULESET_FORWARDING_APPLICATION
RuleSetForwardingApplicationCase(st, event) ==
  IF event.payload.hint # 0
    THEN Returned(Throw(Invoke(st, "builtin", event), "cRuntimeError"), FALSE)
    ELSE Returned(submitRuleSet(Invoke(st, "builtin", event)), FALSE)

\* the class of message each case of the switch reads with std::get
PayloadClassOf(type) ==
  CASE type = "BSM_RESULT" -> "CombinedBSAresults"
    [] type = "BSM_TIMING" -> "BSMTimingNotification"
    [] type = "EMIT_PHOTON_REQUEST" -> "EmitPhotonRequest"
    [] type = "EPPS_TIMING" -> "EPPSTimingNotification"
    [] type = "SINGLE_CLICK_RESULT" -> "SingleClickResult"
    [] type = "MSM_RESULT" -> "MSMResult"
    [] type = "LINK_TOMOGRAPHY_RULESET" -> "LinkTomographyRuleSet"
    [] type = "PURIFICATION_RESULT" -> "PurificationResult"
    [] type = "SWAPPING_RESULT" -> "SwappingResult"
    [] type = "RULESET_FORWARDING" -> "InternalRuleSetForwarding"
    [] type = "RULESET_FORWARDING_APPLICATION" -> "InternalRuleSetForwarding_Application"
    [] type = "STOP_EMITTING" -> "StopEmitting"
    [] OTHER -> "none"

\* RuleEngine::handleRuleEvent: a switch on event.type alone
handleRuleEvent(st, event, number_of_free_emitters) ==
  LET entered == Invoke(st, "builtin", event)
      pk == event.payload
  IN  IF event.type = "UNKNOWN" \/ event.type \notin RuleEventKinds THEN Returned(st, FALSE)
      ELSE IF ~HoldsAlternative(event, PayloadClassOf(event.type)) THEN BadVariantAccess(st)
      ELSE CASE event.type = "BSM_RESULT" -> Returned(handleLinkGenerationResult(entered, pk), FALSE)
             [] event.type = "BSM_TIMING" ->
                  Returned(schedulePhotonEmission(freeFailedEntanglementAttemptQubits(stopOnGoingPhotonEmission(entered))), FALSE)
             [] event.type = "EMIT_PHOTON_REQUEST" -> EmitPhotonRequestCase(st, event, number_of_free_emitters)
             [] event.type = "EPPS_TIMING" ->
                  Returned(scheduleMSMPhotonEmission(stopOnGoingPhotonEmission(entered)), FALSE)
             [] event.type = "SINGLE_CLICK_RESULT" -> Returned(handleSingleClickResult(entered, pk), FALSE)
             [] event.type = "MSM_RESULT" -> Returned(handleMSMResult(entered, pk), FALSE)
             [] event.type = "LINK_TOMOGRAPHY_RULESET" -> Returned(submitRuleSet(entered), FALSE)
             [] event.type = "PURIFICATION_RESULT" -> Returned(handlePurificationResult(entered, pk), FALSE)
             [] event.type = "SWAPPING_RESULT" -> Returned(handleSwappingResult(entered, pk), FALSE)
             [] event.type = "RULESET_FORWARDING" -> Returned(submitRuleSet(entered), FALSE)
             [] event.type = "RULESET_FORWARDING_APPLICATION" -> RuleSetForwardingApplicationCase(st, event)
             [] event.type = "STOP_EMITTING" -> Returned(handleStopEmitting(entered, pk), FALSE)

----------------------------------------------------------------------------
(* modules/QRSA/RuleEngine: the qubits of the link protocols.                *)
(* link is what the engine, its QNicStore and its BellPairStore hold for one  *)
(* QNIC_E interface (MIM link) and one QNIC_RP interface (MSM link), both of  *)
(* index 0 and of NumQubits qubits.  A qubit record is <<type, qubit_index>>. *)
(* busy and allocated are the flags of the records; emitted_indices is        *)
(* emitted_photon_order_map of the QNIC_E interface; bell_pair_store is the   *)
(* multimap of the store, in insertion order; photon_index_counter,           *)
(* iteration_index, qubit_info_map, qubit_postprocess_info and                *)
(* partner_address are msm_info_map[0]; runtimes are the runtimes of the      *)
(* facade (their partners and the qubits bound to them); timer is            *)
(* emit_photon_timer_map of the QNIC_E interface (whether it is scheduled,    *)
(* and its first flag); train, train_free and train_clean record the pulses   *)
(* sent since the last BSM_TIMING, the free qubits that notification left,    *)
(* and whether only the timer has fired since; calls are the calls            *)
(* the operation in progress made on the real-time controller and the router  *)
(* port.                                                                      *)

QubitRecords == {"QNIC_E", "QNIC_RP"} \X (0..(NumQubits - 1))

\* the qubits of a node after construction
NewLink ==
  [busy                   |-> [r \in QubitRecords |-> FALSE],
   allocated              |-> [r \in QubitRecords |-> FALSE],
   emitted_indices        |-> <<>>,
   bell_pair_store        |-> <<>>,
   photon_index_counter   |-> 0,
   iteration_index        |-> 0,
   qubit_info_map         |-> <<>>,
   qubit_postprocess_info |-> <<>>,
   partner_address        |-> 0,
   runtimes               |-> <<>>,
   timer                  |-> [scheduled |-> FALSE, first |-> FALSE],
   train                  |-> <<>>,
   train_free             |-> 0,
   train_clean            |-> FALSE,
   effects                |-> <<>>]

\* the two ends of an MSM link; each is the RuleEngine of a node with its own address
Ends == {"left", "right"}

Other(x) == IF x = "left" THEN "right" ELSE "left"

\* the two nodes after each has handled the EPPS timing notification that
\* names the other as its partner (msm_info.partner_address)
NewPair(left_address, right_address) ==
  [address  |-> [x \in Ends |-> IF x = "left" THEN left_address ELSE right_address],
   node     |-> [x \in Ends |->
                   [NewLink EXCEPT !.partner_address = IF x = "left" THEN right_address ELSE left_address]],
   inbox    |-> [x \in Ends |-> <<>>],
   awaiting |-> [x \in Ends |-> FALSE],
   done     |-> {},
   n        |-> 0]

InitLinkOnly ==
  /\ link = NewLink
  /\ link_last = [op |-> "none", n |-> 0]

\* no pair of nodes is followed
NoPair == [n |-> 0]

InitLinkVars == InitLinkOnly /\ pair = NoPair

\* QutipBackend after construction: nothing checked yet; checks_run and
\* workers_run count the std::system calls of the check and of the worker
InitBackendVars ==
  /\ backend = [qutip_runtime_checked_     |-> FALSE,
                qutip_runtime_available_   |-> FALSE,
                qutip_runtime_check_error_ |-> <<>>,
                checks_run                 |-> 0,
                workers_run                |-> 0]
  /\ backend_last = [op |-> "none", n |-> 0]

----------------------------------------------------------------------------
(* core/events/RuleEventBus.cc: queue and drain *)

\* the comparator of the std::sort in drain
PrecedesTimeOnly(lhs, rhs) == lhs.time < rhs.time

Precedes(lhs, rhs) ==
  IF lhs.time # rhs.time THEN lhs.time < rhs.time ELSE lhs.event_number < rhs.event_number

\* a sequence without its i-th element
RemoveAt(s, i) == SubSeq(s, 1, i - 1) \o SubSeq(s, i + 1, Len(s))

\* std::sort is not stable: it may leave the queue in any order that agrees
\* with the comparator, i.e. any permutation in which no element is preceded
\* by one that the comparator puts after it
RECURSIVE SortOutcomes(_)
SortOutcomes(q) ==
  IF q = <<>> THEN {<<>>}
  ELSE UNION {{<<q[i]>> \o rest : rest \in SortOutcomes(RemoveAt(q, i))} :
                i \in {m \in 1..Len(q) : \A j \in 1..Len(q) : ~Precedes(q[j], q[m])}}

\* the loop `for (; it != end && it->time <= now; ++it)`: how many events it copies
RECURSIVE DrainCountFrom(_, _, _)
DrainCountFrom(s, now, i) ==
  IF i <= Len(s) /\ s[i].time <= now THEN DrainCountFrom(s, now, i + 1) ELSE i - 1

\* a sweep that finds no event due
DrainNothing(s, now) == 0

DrainCount(s, now) == DrainCountFrom(s, now, 1)

\* event_queue.erase(begin, it)
DrainKeepsAll(s, k) == s

DrainRemainder(s, k) == SubSeq(s, k + 1, Len(s))

\* the events a test or a handler hands to publish(const RuleEvent&)
PrebuiltEvents ==
  {[type |-> "BSM_RESULT", channel |-> "EXTERNAL", keep_source |-> FALSE, time |-> t, event_number |-> n,
    protocol_spec |-> "MIM_v1", execution_path |-> "EntanglementLifecycle",
    protocol_raw_value |-> EmptyString, payload |-> Monostate, uid |-> 0] : t \in Times, n \in EventNumbers}

\* the raw messages handed to publish(cMessage*, now)
BusMessages ==
  {[id |-> 1, cls |-> "EmitPhotonRequest", is_self |-> TRUE, msm |-> TRUE, hint |-> 0]}

BusOpsLeft == Len(bus_history) < MaxBusOps

\* RuleEventBus::publish(const RuleEvent&)
PublishEvent(e) ==
  /\ BusOpsLeft
  /\ event_queue' = Append(event_queue, [e EXCEPT !.uid = next_uid])
  /\ bus_history' = Append(bus_history, [op |-> "publish", raw |-> FALSE, ev |-> [e EXCEPT !.uid = next_uid]])
  /\ next_uid' = next_uid + 1
  /\ UNCHANGED <<backend_vars, link_vars, translators, fallback_event_number, kernel, cm_vars, re_vars>>

\* RuleEventBus::publish(cMessage*, now)
PublishMsg(msg, now) ==
  /\ BusOpsLeft
  /\ LET e == [toRuleEvent(translators, msg, now, getEventNumberOrFallback) EXCEPT !.uid = next_uid]
     IN  /\ event_queue' = Append(event_queue, e)
         /\ bus_history' = Append(bus_history,
              [op |-> "publish", raw |-> TRUE, ev |-> e, msg |-> msg, reg |-> translators,
               before |-> event_queue])
  /\ fallback_event_number' = FallbackAfterCall
  /\ next_uid' = next_uid + 1
  /\ UNCHANGED <<backend_vars, link_vars, translators, kernel, cm_vars, re_vars>>

\* RuleEventBus::drain
Drain(now) ==
  /\ BusOpsLeft
  /\ \E s \in SortOutcomes(event_queue) :
       LET k == DrainCount(s, now)
       IN  /\ event_queue' = DrainRemainder(s, k)
           /\ bus_history' = Append(bus_history,
                [op |-> "drain", now |-> now, before |-> event_queue, out |-> SubSeq(s, 1, k),
                 after |-> DrainRemainder(s, k)])
  /\ UNCHANGED <<backend_vars, link_vars, translators, fallback_event_number, kernel, next_uid, cm_vars, re_vars>>

InitBusVars ==
  /\ event_queue = <<>>
  /\ translators = registerDefaultTranslators
  /\ fallback_event_number = 0
  /\ kernel = [present |-> TRUE, event_number |-> 0]
  /\ bus_history = <<>>
  /\ next_uid = 1

InitBus == InitBusVars /\ InitCMVars /\ InitREVars /\ InitLinkVars /\ InitBackendVars

NextBus ==
  \/ \E e \in PrebuiltEvents : PublishEvent(e)
  \/ \E msg \in BusMessages, now \in Times : PublishMsg(msg, now)
  \/ \E now \in Times : Drain(now)

SpecBus == InitBus /\ [][NextBus]_vars

MaxPublishOps == 3

\* the raw messages a node receives: the null pointer, a plain cMessage, a
\* message of a class that has no built-in decoder, a timing notification, an
\* emit request that arrives from outside
RawMessages ==
  {NullMsg,
   [id |-> 1, cls |-> "omnetpp::cMessage", is_self |-> FALSE, msm |-> FALSE, hint |-> 0],
   [id |-> 2, cls |-> "CustomMessage", is_self |-> TRUE, msm |-> FALSE, hint |-> 0],
   [id |-> 3, cls |-> "BSMTimingNotification", is_self |-> FALSE, msm |-> FALSE, hint |-> 0],
   [id |-> 4, cls |-> "EmitPhotonRequest", is_self |-> FALSE, msm |-> FALSE, hint |-> 0]}

\* RuleEventBus::publish(cMessage*, now) as the node calls it
PublishRaw(msg, now) == Len(bus_history) < MaxPublishOps /\ PublishMsg(msg, now)

\* RuleEventBus::registerTranslator with a translator built by translatorFor
registerTranslator(message_class_name, translator) ==
  /\ message_class_name \notin DOMAIN translators
  /\ translators' = [c \in DOMAIN translators \cup {message_class_name} |->
                       IF c = message_class_name THEN translator ELSE translators[c]]
  /\ UNCHANGED <<backend_vars, link_vars, event_queue, fallback_event_number, kernel, bus_history, next_uid, cm_vars, re_vars>>

\* the kernel goes on to its next event: getEventNumber() is one more
KernelEvent ==
  /\ kernel.present /\ kernel.event_number < MaxEventNumber
  /\ kernel' = [kernel EXCEPT !.event_number = @ + 1]
  /\ UNCHANGED <<backend_vars, link_vars, event_queue, translators, fallback_event_number, bus_history, next_uid, cm_vars, re_vars>>

\* a bus in a simulation, or one without an active simulation (getSimulation() is null)
InitPublish ==
  /\ event_queue = <<>>
  /\ translators = registerDefaultTranslators
  /\ fallback_event_number = 0
  /\ kernel \in {[present |-> present, event_number |-> 0] : present \in BOOLEAN}
  /\ bus_history = <<>>
  /\ next_uid = 1
  /\ InitCMVars /\ InitREVars /\ InitLinkVars /\ InitBackendVars

NextPublish ==
  \/ \E msg \in RawMessages, now \in Times : PublishRaw(msg, now)
  \/ registerTranslator("CustomMessage",
                        translatorFor("STOP_EMITTING", "Unknown", "Unknown", FALSE))
  \/ KernelEvent
  \/ \E now \in Times : Len(bus_history) < MaxPublishOps /\ Drain(now)

SpecPublish == InitPublish /\ [][NextPublish]_vars

InitCM == InitBusVars /\ InitCMVars /\ InitREVars /\ InitLinkVars /\ InitBackendVars

\* every response carries a RuleSet id of its own (as in the tests)
NextCM ==
  \/ \E pk \in Responses : storeRuleSet([pk EXCEPT !.ruleset_id = 11 + Len(cm_log)])
  \/ \E pk \in Responses : storeRuleSetForApplication([pk EXCEPT !.ruleset_id = 11 + Len(cm_log)])

SpecCM == InitCM /\ [][NextCM]_vars

----------------------------------------------------------------------------
(* modules/QRSA/RuleEngine: the calls made on the engine *)

\* par("number_of_qnics"), par("number_of_qnics_r"), par("number_of_qnics_rp") of the node
number_of_qnics == 1
number_of_qnics_r == 1
number_of_qnics_rp == 0

\* the keys a handler is registered under, in each of the three tables
RegisteredKeys(st) ==
  [exact    |-> DOMAIN st.rule_event_handlers,
   type     |-> DOMAIN st.rule_event_type_fallback_handlers,
   protocol |-> DOMAIN st.rule_protocol_fallback_handlers]

\* a call starts with nothing done yet
BeginCall(st) == [st EXCEPT !.invoked = <<>>, !.effects = <<>>, !.log = <<>>, !.thrown = "none"]

\* a self-message that is delivered is no longer scheduled
Delivered(st, msg) ==
  IF msg.is_self THEN [st EXCEPT !.scheduled = {m \in @ : m.id # msg.id}] ELSE st

\* the loop of handleMessage over the drained events,
\*   keep_message = keep_message || handleRuleEvent(event);
\* || does not evaluate its right side once keep_message is true, and an exception ends the loop
RECURSIVE DispatchDrained(_, _, _, _, _, _)
DispatchDrained(st, events, i, keep_message, free, dispatched) ==
  IF i > Len(events) \/ st.thrown # "none"
    THEN [st |-> st, keep_message |-> keep_message, dispatched |-> dispatched]
  ELSE IF keep_message THEN DispatchDrained(st, events, i + 1, TRUE, free, dispatched)
  ELSE LET r == handleRuleEvent(st, events[i], free)
       IN  DispatchDrained(r.st, events, i + 1, r.ret, free, Append(dispatched, events[i]))

\* ResourceAllocation for every interface of every kind
AllocateAll(st) ==
  Repeat(st, [call |-> "allocateResources"], number_of_qnics + number_of_qnics_r + number_of_qnics_rp)

\* the range of the loop in handleMessage is the vector drain returned: an event
\* a handler publishes while the loop runs goes to event_queue, not to that vector
LoopOverQueue(ready, published) == ready \o published

LoopRange(ready, published) == ready

\* RuleEngine::handleMessage; published are the events handed to
\* event_bus.publish(const RuleEvent&) while the drained events are dispatched
handleMessage(msg, now, free, published) ==
  /\ LET st0 == executeAllRuleSets(BeginCall(Delivered(engine, msg)))
         event == toRuleEvent(translators, msg, now, getEventNumberOrFallback)
     IN  \E s \in SortOutcomes(Append(event_queue, event)) :
           LET k == DrainCount(s, now)
               drained == SubSeq(s, 1, k)
               done == DispatchDrained(st0, LoopRange(drained, published), 1, FALSE, free, <<>>)
               threw == done.st.thrown # "none"
           IN  /\ event_queue' = DrainRemainder(s, k) \o published
               /\ engine' = IF threw THEN done.st ELSE executeAllRuleSets(AllocateAll(done.st))
               /\ re_last' = [op |-> "handleMessage", n |-> re_last.n + 1, now |-> now, msg |-> msg,
                              drained |-> drained, dispatched |-> done.dispatched,
                              keep_message |-> done.keep_message,
                              deleted |-> ~threw /\ ~done.keep_message,
                              runtimes_before |-> engine.runtimes,
                              free |-> free,
                              emitted_before |-> engine.emitted,
                              timer_before |-> (\E m \in engine.scheduled : m.id = TimerId),
                              counter_before |-> engine.photon_index_counter,
                              tables |-> RegisteredKeys(engine),
                              published |-> published]
  /\ fallback_event_number' = FallbackAfterCall
  /\ kernel' = [kernel EXCEPT !.event_number = @ + 1]
  /\ UNCHANGED <<backend_vars, link_vars, translators, bus_history, next_uid, cm_vars>>

\* a message is delivered to the engine
HandleMessage(msg, now, free, published) ==
  /\ re_last.n < MaxREOps
  /\ handleMessage(msg, now, free, published)

\* a direct call of RuleEngine::handleRuleEvent with an event built by the caller
HandleRuleEventCall(event, free) ==
  /\ re_last.n < MaxREOps
  /\ LET r == handleRuleEvent(BeginCall(engine), event, free)
     IN  /\ engine' = r.st
         /\ re_last' = [op |-> "handleRuleEvent", n |-> re_last.n + 1, now |-> re_last.now, msg |-> NullMsg,
                        drained |-> <<event>>, dispatched |-> <<event>>,
                        keep_message |-> r.ret, deleted |-> FALSE,
                        runtimes_before |-> engine.runtimes,
                        free |-> free,
                        emitted_before |-> engine.emitted,
                        timer_before |-> (\E m \in engine.scheduled : m.id = TimerId),
                        counter_before |-> engine.photon_index_counter,
                        tables |-> RegisteredKeys(engine),
                        published |-> <<>>]
  /\ UNCHANGED <<backend_vars, link_vars, bus_vars, cm_vars>>

\* RuleEngine::registerRuleEventHandler and the two fallback registrations: the
\* handler is stored under its key, replacing an earlier one
Registered(table, key, owner) == [k \in DOMAIN table \cup {key} |-> IF k = key THEN owner ELSE table[k]]

registerRuleEventHandler(event_type, protocol_spec, owner) ==
  /\ engine' = [engine EXCEPT !.rule_event_handlers = Registered(@, <<event_type, protocol_spec>>, owner)]
  /\ UNCHANGED <<backend_vars, link_vars, bus_vars, cm_vars, re_last>>

registerRuleEventTypeFallback(event_type, owner) ==
  /\ engine' = [engine EXCEPT !.rule_event_type_fallback_handlers = Registered(@, event_type, owner)]
  /\ UNCHANGED <<backend_vars, link_vars, bus_vars, cm_vars, re_last>>

registerRuleEventProtocolFallback(protocol_spec, owner) ==
  /\ engine' = [engine EXCEPT !.rule_protocol_fallback_handlers = Registered(@, protocol_spec, owner)]
  /\ UNCHANGED <<backend_vars, link_vars, bus_vars, cm_vars, re_last>>

\* RuleProtocolHandlerRegistrar::registerDefaults: the keys it registers a handler under
DefaultHandlerKeys ==
  {<<"BSM_RESULT", "MIM_v1">>, <<"BSM_TIMING", "MIM_v1">>, <<"EPPS_TIMING", "MSM_v1">>,
   <<"EMIT_PHOTON_REQUEST", "Unknown">>, <<"SINGLE_CLICK_RESULT", "MSM_v1">>, <<"MSM_RESULT", "MSM_v1">>,
   <<"LINK_TOMOGRAPHY_RULESET", "LinkTomography">>, <<"PURIFICATION_RESULT", "Purification">>,
   <<"SWAPPING_RESULT", "Swapping">>, <<"RULESET_FORWARDING", "ConnectionManagement">>,
   <<"RULESET_FORWARDING_APPLICATION", "ConnectionManagement">>, <<"STOP_EMITTING", "MSM_v1">>,
   <<"UNKNOWN", "Unknown">>}

registerDefaults ==
  /\ engine' = [engine EXCEPT !.rule_event_handlers =
                  [k \in DOMAIN @ \cup DefaultHandlerKeys |-> IF k \in DefaultHandlerKeys THEN "registrar" ELSE @[k]]]
  /\ UNCHANGED <<backend_vars, link_vars, bus_vars, cm_vars, re_last>>

\* the messages delivered to the engine; one that arrives from outside is a new object
FreshId == re_last.n + 1

Msg(cls, is_self, msm, hint, success) ==
  [id |-> FreshId, cls |-> cls, is_self |-> is_self, msm |-> msm, hint |-> hint, success |-> success]

PlainClasses ==
  {"CombinedBSAresults", "BSMTimingNotification", "EPPSTimingNotification", "LinkTomographyRuleSet",
   "StopEmitting", "SwappingResult", "InternalRuleSetForwarding", "cMessage"}

ArrivingMessages ==
  {Msg(c, is_self, FALSE, 0, FALSE) : c \in PlainClasses, is_self \in BOOLEAN}
    \cup {Msg("EmitPhotonRequest", FALSE, msm, 0, FALSE) : msm \in BOOLEAN}
    \cup {Msg("InternalRuleSetForwarding_Application", FALSE, FALSE, h, FALSE) : h \in {0, 999}}
    \cup {Msg("PurificationResult", FALSE, FALSE, h, FALSE) : h \in {0, 11}}
    \cup {Msg("SingleClickResult", FALSE, FALSE, 0, ok) : ok \in BOOLEAN}
    \cup {Msg("MSMResult", FALSE, FALSE, h, ok) : h \in {0, 1}, ok \in BOOLEAN}
    \cup engine.scheduled

\* what countNumFreeQubits may return
FreeChoices(type) == IF type = "EMIT_PHOTON_REQUEST" THEN 0..MaxFreeQubits ELSE {0}

\* events built by the caller, as RuleEvent{type, channel, keep_source, time, event_number, protocol_spec, execution_path}
CallerEvent(type, protocol_spec, execution_path) ==
  [type |-> type, channel |-> "EXTERNAL", keep_source |-> FALSE, time |-> 1, event_number |-> 0,
   protocol_spec |-> protocol_spec, execution_path |-> execution_path,
   protocol_raw_value |-> EmptyString, payload |-> Monostate, uid |-> 0]

CallerEvents ==
  {CallerEvent("BSM_RESULT", p, "EntanglementLifecycle") : p \in {"Unknown", "MSM_v1", "Maintenance"}}
    \cup {CallerEvent("UNKNOWN", "Unknown", "Unknown")}

InitRE == InitBusVars /\ InitCMVars /\ InitREVars /\ InitLinkVars /\ InitBackendVars

\* simulation time does not go back; a message arrives now or one step later
ArrivalTimes == {t \in Times : re_last.now <= t /\ t <= re_last.now + 1}

Deliver ==
  \E msg \in ArrivingMessages, now \in ArrivalTimes :
    \E free \in FreeChoices(toRuleEvent(translators, msg, now, 0).type) : HandleMessage(msg, now, free, <<>>)

NextRE ==
  \/ Deliver
  \/ \E event \in CallerEvents : HandleRuleEventCall(event, 0)

SpecRE == InitRE /\ [][NextRE]_vars

----------------------------------------------------------------------------
(* The photon train: the timing notifications, the emission timer, and the   *)
(* handlers registered for them                                              *)

MaxTrainOps == 3

\* the handler MIMProtocolHandler::registerHandlers (and registerDefaults)
\* stores for <<BSM_TIMING, MIM_v1>>
RegisteredBsmTimingHandler(st, event, number_of_free_emitters) ==
  schedulePhotonEmission(freeFailedEntanglementAttemptQubits(stopOnGoingPhotonEmission(Invoke(st, "registered", event))))

\* the handler registerDefaults (and MSMProtocolHandler::registerHandlers)
\* stores for <<EMIT_PHOTON_REQUEST, Unknown>>
RegisteredEmitPhotonRequestHandler(st, event, number_of_free_emitters) ==
  LET pk == event.payload
      took == Effect(Effect(Invoke(st, "registered", event), [call |-> "countNumFreeQubits"]),
                     [call |-> "takeFreeQubitIndex"])
  IN  IF pk.msm
        THEN LET counted == [took EXCEPT !.photon_index_counter = @ + 1]
                 signalled ==
                   IF number_of_free_emitters # 0
                     THEN sendEmitPhotonSignalToQnic(counted, TRUE, TRUE, TRUE)
                     ELSE sendFailedMSMResult(counted)
             IN  scheduleAt(signalled, pk)
        ELSE LET is_first == isFirst(took, pk)
                 is_last == (number_of_free_emitters = 1)
                 signalled == sendEmitPhotonSignalToQnic(setFirstFalse(took, pk), FALSE, is_first, is_last)
             IN  IF is_last THEN signalled ELSE scheduleAt(signalled, pk)

\* the std::function stored under <<event_type, protocol_spec>> is called with an event
CallRegisteredHandler(event_type, protocol_spec, msg, free) ==
  /\ re_last.n < MaxTrainOps
  /\ <<event_type, protocol_spec>> \in DOMAIN engine.rule_event_handlers
  /\ LET event == toRuleEvent(translators, msg, re_last.now, 0)
         st0 == BeginCall(Delivered(engine, msg))
     IN  /\ event.type = event_type
         /\ engine' = IF event_type = "BSM_TIMING"
                        THEN RegisteredBsmTimingHandler(st0, event, free)
                        ELSE RegisteredEmitPhotonRequestHandler(st0, event, free)
         /\ re_last' = [op |-> "registeredHandler", n |-> re_last.n + 1, now |-> re_last.now, msg |-> msg,
                        drained |-> <<event>>, dispatched |-> <<event>>,
                        keep_message |-> (event_type = "EMIT_PHOTON_REQUEST"), deleted |-> FALSE,
                        runtimes_before |-> engine.runtimes,
                        free |-> free,
                        emitted_before |-> engine.emitted,
                        timer_before |-> (\E m \in engine.scheduled : m.id = TimerId),
                        counter_before |-> engine.photon_index_counter,
                        tables |-> RegisteredKeys(engine),
                        published |-> <<>>]
  /\ UNCHANGED <<backend_vars, link_vars, bus_vars, cm_vars>>

\* the messages of the train: the timing notifications of the midpoints, a
\* request to emit, and the engine's own timers
TrainMessages ==
  {Msg(c, FALSE, FALSE, 0, FALSE) : c \in {"BSMTimingNotification", "EPPSTimingNotification"}}
    \cup {Msg("EmitPhotonRequest", FALSE, msm, 0, FALSE) : msm \in BOOLEAN}
    \cup engine.scheduled

TrainDeliver ==
  \E msg \in TrainMessages, now \in ArrivalTimes :
    \E free \in FreeChoices(toRuleEvent(translators, msg, now, 0).type) :
      /\ re_last.n < MaxTrainOps
      /\ handleMessage(msg, now, free, <<>>)

NextTrain ==
  \/ TrainDeliver
  \/ registerDefaults
  \/ \E msg \in TrainMessages : CallRegisteredHandler("BSM_TIMING", "MIM_v1", msg, 0)
  \/ \E msg \in TrainMessages, free \in 0..MaxFreeQubits :
       CallRegisteredHandler("EMIT_PHOTON_REQUEST", "Unknown", msg, free)

SpecTrain == InitRE /\ [][NextTrain]_vars

\* the engine with handlers being registered on it
\* a message arrives with no time passed since the last call
DeliverAtOnce ==
  \E msg \in ArrivingMessages :
    \E free \in FreeChoices(toRuleEvent(translators, msg, re_last.now, 0).type) :
      HandleMessage(msg, re_last.now, free, <<>>)

NextDispatch ==
  \/ DeliverAtOnce
  \/ \E event \in CallerEvents : HandleRuleEventCall(event, 0)
  \/ registerRuleEventHandler("BSM_RESULT", "MSM_v1", "exact")
  \/ registerRuleEventTypeFallback("BSM_RESULT", "type_fallback")
  \/ \E p \in {"MSM_v1", "Maintenance"} : registerRuleEventProtocolFallback(p, "protocol_fallback")
  \/ registerDefaults

SpecDispatch == InitRE /\ [][NextDispatch]_vars

\* what a handler may publish while it runs: nothing, or one event due at once
\* (an UNKNOWN event, or a BSM_RESULT without a message)
MidDispatchPublishes(now) ==
  {<<>>} \cup {<<[CallerEvent(type, "Unknown", "Unknown") EXCEPT !.time = now, !.uid = FreshId]>> :
                 type \in {"UNKNOWN", "BSM_RESULT"}}

\* messages that arrive at an engine whose handlers publish
PublishingMessages ==
  {m \in ArrivingMessages : m.cls \in {"cMessage", "CombinedBSAresults", "EmitPhotonRequest"} /\ ~m.msm}

DeliverPublishing ==
  \E msg \in PublishingMessages, now \in ArrivalTimes :
    \E free \in FreeChoices(toRuleEvent(translators, msg, now, 0).type), published \in MidDispatchPublishes(now) :
      HandleMessage(msg, now, free, published)

NextHold == DeliverPublishing

SpecHold == InitRE /\ [][NextHold]_vars

----------------------------------------------------------------------------
(* modules/QRSA/RuleEngine/RuleEngine.cc: the link protocols on the qubits *)

\* provider.getNodeAddr(), and the addresses of the nodes across the links
parentAddress == 2

PartnerAddresses == {1, 3}

\* QNicStore::setQubitBusy
setQubitBusy(l, rec, is_busy) == [l EXCEPT !.busy[rec] = is_busy]

\* realtime_controller->ReInitialize_StationaryQubit(..., false); qnic_store->setQubitBusy(..., false)
ReInitializeAndRelease(l, rec) ==
  setQubitBusy(Effect(l, [call |-> "ReInitialize_StationaryQubit", qubit |-> rec]), rec, FALSE)

\* BellPairStore::insertEntangledQubit: one more entry of the multimap
insertEntangledQubit(l, partner_addr, rec) ==
  [l EXCEPT !.bell_pair_store = Append(@, [partner |-> partner_addr, qubit |-> rec])]

\* BellPairStore::eraseQubit: the entries of the record leave the multimap
eraseQubit(l, rec) == [l EXCEPT !.bell_pair_store = SelectSeq(@, LAMBDA e : e.qubit # rec)]

\* the loop of freeFailedEntanglementAttemptQubits over emitted_indices
RECURSIVE ReleaseEmitted(_, _)
ReleaseEmitted(l, emitted_indices) ==
  IF emitted_indices = <<>> THEN [l EXCEPT !.emitted_indices = <<>>]
  ELSE ReleaseEmitted(ReInitializeAndRelease(l, <<"QNIC_E", Head(emitted_indices)>>), Tail(emitted_indices))

\* case EMIT_PHOTON_REQUEST, with qubit_index what takeFreeQubitIndex returned
\* (it has marked that qubit busy; -1 when no qubit is free)
EmitPhoton(l, is_msm, number_of_free_emitters, qubit_index) ==
  LET type == IF is_msm THEN "QNIC_RP" ELSE "QNIC_E"
      took == IF qubit_index = -1 THEN l ELSE setQubitBusy(l, <<type, qubit_index>>, TRUE)
      signalled == Effect(took, [call |-> "EmitPhoton", qubit |-> <<type, qubit_index>>])
  IN  IF is_msm
        THEN IF number_of_free_emitters # 0
               THEN [signalled EXCEPT !.photon_index_counter = @ + 1,
                                      !.qubit_info_map = Registered(@, l.iteration_index, qubit_index)]
               ELSE Effect([took EXCEPT !.photon_index_counter = @ + 1],
                           [call |-> "send", cls |-> "MSMResult", success |-> FALSE, correction_operation |-> "I",
                            photon_index |-> l.photon_index_counter + 1, gate |-> "RouterPort$o"])
        ELSE IF number_of_free_emitters = 0 THEN took
        ELSE [signalled EXCEPT !.emitted_indices = Append(@, qubit_index)]

\* a click that is never reported to the partner
ClickNotReported(l, click_result) == ReInitializeAndRelease(l, <<"QNIC_RP", 0>>)

\* RuleEngine::handleSingleClickResult; qubit_info_map[iteration_index] makes the entry (of qubit 0) when it is missing
LinkSingleClickResult(l, click_result) ==
  LET qubit_index == IF l.iteration_index \in DOMAIN l.qubit_info_map THEN l.qubit_info_map[l.iteration_index] ELSE 0
      looked == [l EXCEPT !.qubit_info_map = Registered(@, l.iteration_index, qubit_index)]
      after ==
        IF click_result.success
          THEN [looked EXCEPT !.qubit_postprocess_info =
                                Registered(@, l.photon_index_counter,
                                           [qubit_index |-> qubit_index,
                                            correction_operation |-> click_result.correction_operation]),
                              !.iteration_index = @ + 1]
          ELSE ReInitializeAndRelease(looked, <<"QNIC_RP", qubit_index>>)
  IN  Effect(after, [call |-> "send", cls |-> "MSMResult", success |-> click_result.success,
                     correction_operation |-> click_result.correction_operation,
                     photon_index |-> l.photon_index_counter, gate |-> "RouterPort$o"])

\* a Z gate wherever the corrections differ
ZGateWhenDifferent(self_address, local_correction, partner_correction, partner_address) ==
  local_correction # partner_correction

\* is_phi_minus && is_younger_address, in the RuleEngine of the node self_address
ZGateAppliesAt(self_address, local_correction, partner_correction, partner_address) ==
  local_correction # partner_correction /\ self_address < partner_address

\* is_phi_minus && is_younger_address
PhiMinusOnly(local_correction, partner_correction, partner_address) == local_correction # partner_correction

ZGateApplies(local_correction, partner_correction, partner_address) ==
  ZGateAppliesAt(parentAddress, local_correction, partner_correction, partner_address)

\* a result for a photon that has no record, handled as a failed attempt
MissingTakenAsFailure(l, msm_result) == ReInitializeAndRelease(l, <<"QNIC_RP", 0>>)

\* a result of the partner that is dropped
ResultDropped(l, msm_result) == l

\* handleMSMResult, both ends succeeded: the Z gate where it applies, then the store
StoreAfterCorrection(l, rec, applies) ==
  insertEntangledQubit(IF applies THEN Effect(l, [call |-> "applyZGate", qubit |-> rec]) ELSE l,
                       l.partner_address, rec)

\* RuleEngine::handleMSMResult, in the node this module follows
LinkMSMResult(l, msm_result) ==
  IF msm_result.photon_index \notin DOMAIN l.qubit_postprocess_info THEN l
  ELSE LET qubit_info == l.qubit_postprocess_info[msm_result.photon_index]
           rec == <<"QNIC_RP", qubit_info.qubit_index>>
       IN  IF ~msm_result.success THEN ReInitializeAndRelease(l, rec)
           ELSE StoreAfterCorrection(l, rec,
                  ZGateApplies(qubit_info.correction_operation, msm_result.correction_operation, l.partner_address))

\* RuleEngine::handleMSMResult, in the node self_address
MSMResultAt(self_address, l, msm_result) ==
  IF msm_result.photon_index \notin DOMAIN l.qubit_postprocess_info THEN l
  ELSE LET qubit_info == l.qubit_postprocess_info[msm_result.photon_index]
           rec == <<"QNIC_RP", qubit_info.qubit_index>>
       IN  IF ~msm_result.success THEN ReInitializeAndRelease(l, rec)
           ELSE StoreAfterCorrection(l, rec,
                  ZGateAppliesAt(self_address, qubit_info.correction_operation,
                                 msm_result.correction_operation, l.partner_address))

\* one turn of the loop of RuleEngine::handleLinkGenerationResult, for the i-th success of the message
\* (photon indices count from 0, positions of a sequence from 1)
MoveKeepingEmitted(l, bsa_result, i) ==
  insertEntangledQubit(l, bsa_result.neighbor, <<"QNIC_E", l.emitted_indices[bsa_result.indices[i] + 1]>>)

MoveSuccessful(l, bsa_result, i) ==
  LET emitted_index == bsa_result.indices[i]
      rec == <<"QNIC_E", l.emitted_indices[emitted_index + 1]>>
      moved == [insertEntangledQubit(l, bsa_result.neighbor, rec) EXCEPT !.emitted_indices = RemoveAt(@, emitted_index + 1)]
  IN  IF bsa_result.corrections[i] = "I" THEN moved
      ELSE Effect(moved, [call |-> "applyGate", gate |-> bsa_result.corrections[i], qubit |-> rec])

\* RuleEngine::handleLinkGenerationResult: the loop, from the last success to the first
RECURSIVE LinkGenerationResult(_, _, _)
LinkGenerationResult(l, bsa_result, i) ==
  IF i < 1 THEN l ELSE LinkGenerationResult(MoveSuccessful(l, bsa_result, i), bsa_result, i - 1)

\* RuleEngine::freeConsumedResource; the runtime that consumed the qubit no longer holds it
freeConsumedResource(l, rec) ==
  LET freed == eraseQubit([ReInitializeAndRelease(l, rec) EXCEPT !.allocated[rec] = FALSE], rec)
  IN  [freed EXCEPT !.runtimes = [rt \in DOMAIN @ |-> [@[rt] EXCEPT !.qubits = SelectSeq(@, LAMBDA b : b.qubit # rec)]]]

\* runtime/RuntimeFacade.cc: the test `if (!qubit_record->isAllocated())` of allocateResources
AlwaysBinds(l, rec) == TRUE

NotYetAllocated(l, rec) == ~l.allocated[rec]

\* qubit_record->setAllocated(true); runtime.assignQubitToRuleSet(partner_addr, qubit_record)
Bind(l, rt, partner_addr, rec) ==
  [l EXCEPT !.allocated[rec] = TRUE,
            !.runtimes[rt].qubits = Append(@, [partner |-> partner_addr, qubit |-> rec])]

\* RuntimeFacade::allocateResources: for every runtime, for every partner of it (in
\* ascending order), for every entry of the store for that partner and that
\* interface, from position pos on
RECURSIVE allocateResources(_, _, _, _, _)
allocateResources(l, qnic_type, rt, partners, pos) ==
  IF rt > Len(l.runtimes) THEN l
  ELSE IF partners = {}
    THEN allocateResources(l, qnic_type, rt + 1,
                           IF rt + 1 <= Len(l.runtimes) THEN l.runtimes[rt + 1].partners ELSE {}, 1)
  ELSE LET partner_addr == CHOOSE p \in partners : \A o \in partners : p <= o
       IN  IF pos > Len(l.bell_pair_store)
             THEN allocateResources(l, qnic_type, rt, partners \ {partner_addr}, 1)
           ELSE LET it == l.bell_pair_store[pos]
                    found == it.partner = partner_addr /\ it.qubit[1] = qnic_type /\ NotYetAllocated(l, it.qubit)
                IN  allocateResources(IF found THEN Bind(l, rt, partner_addr, it.qubit) ELSE l,
                                      qnic_type, rt, partners, pos + 1)

\* RuleEngine::ResourceAllocation
LinkResourceAllocation(l, qnic_type) ==
  allocateResources(l, qnic_type, 1, IF l.runtimes = <<>> THEN {} ELSE l.runtimes[1].partners, 1)

\* the identifier of the first RuleSet submitted; every later one gets the next
\* number (the RuleSets of the facade's tests have ids 100, 101, 102)
FirstRuleSetId == 100

\* a lookup that takes the first runtime whatever its identifier
FirstRuntime(l, ruleset_id) == IF l.runtimes = <<>> THEN 0 ELSE 1

\* RuntimeFacade::findById: the position of the runtime with that id, 0 for nullptr
findById(l, ruleset_id) ==
  IF \E rt \in DOMAIN l.runtimes : l.runtimes[rt].id = ruleset_id
    THEN CHOOSE rt \in DOMAIN l.runtimes :
           /\ l.runtimes[rt].id = ruleset_id
           /\ \A o \in DOMAIN l.runtimes : l.runtimes[o].id = ruleset_id => rt <= o
    ELSE 0

\* RuntimeFacade::assignMessageToRuleSet
assignMessageToRuleSet(l, ruleset_id, shared_rule_tag, msg_content) ==
  LET runtime == findById(l, ruleset_id)
  IN  IF runtime = 0 THEN l
      ELSE [l EXCEPT !.runtimes[runtime].messages =
                        Append(@, [shared_rule_tag |-> shared_rule_tag, msg_content |-> msg_content])]

----------------------------------------------------------------------------
(* The operations on the qubits *)

\* one operation: it starts with no call made yet
LinkStep(op, msg, after) ==
  /\ link_last.n < MaxLinkOps
  /\ link' = after
  /\ link_last' = [op |-> op, n |-> link_last.n + 1, msg |-> msg, before |-> link]
  /\ UNCHANGED <<backend_vars, bus_vars, cm_vars, re_vars, pair>>

Fresh == [link EXCEPT !.effects = <<>>]

OnBsmTiming == LinkStep("BSM_TIMING", Monostate, ReleaseEmitted(Fresh, link.emitted_indices))

OnEppsTiming(partner_address) ==
  LinkStep("EPPS_TIMING", [partner_address |-> partner_address], [Fresh EXCEPT !.partner_address = partner_address])

\* countNumFreeQubits counts the qubits of the interface that are not busy,
\* takeFreeQubitIndex takes one of them
OnEmitPhotonRequest(is_msm) ==
  LET free == {r \in QubitRecords : r[1] = (IF is_msm THEN "QNIC_RP" ELSE "QNIC_E") /\ ~link.busy[r]}
  IN  \E qubit_index \in (IF free = {} THEN {-1} ELSE {r[2] : r \in free}) :
        LinkStep("EMIT_PHOTON_REQUEST", [is_msm |-> is_msm, qubit_index |-> qubit_index],
                 EmitPhoton(Fresh, is_msm, Cardinality(free), qubit_index))

OnSingleClickResult(click_result) ==
  LinkStep("SINGLE_CLICK_RESULT", click_result, LinkSingleClickResult(Fresh, click_result))

OnMSMResult(msm_result) == LinkStep("MSM_RESULT", msm_result, LinkMSMResult(Fresh, msm_result))

OnBsmResult(bsa_result) ==
  LinkStep("BSM_RESULT", bsa_result, LinkGenerationResult(Fresh, bsa_result, Len(bsa_result.indices)))

\* a rule consumed a qubit of the store
FreeConsumedResource(rec) ==
  /\ \E i \in DOMAIN link.bell_pair_store : link.bell_pair_store[i].qubit = rec
  /\ LinkStep("freeConsumedResource", [qubit |-> rec], freeConsumedResource(Fresh, rec))

AllocateResources(qnic_type) ==
  LinkStep("allocateResources", [qnic_type |-> qnic_type], LinkResourceAllocation(Fresh, qnic_type))

\* RuntimeFacade::submitRuleSet: one more runtime, with the partners its RuleSet declares
SubmitRuleSet(partners) ==
  /\ Len(link.runtimes) < MaxRuntimes
  /\ LinkStep("submitRuleSet", [partners |-> partners],
              [Fresh EXCEPT !.runtimes = Append(@, [id |-> FirstRuleSetId + Len(@), partners |-> partners,
                                                    qubits |-> <<>>, messages |-> <<>>])])

\* RuntimeFacade::assignMessageToRuleSet as the protocol handlers call it
AssignMessageToRuleSet(ruleset_id, shared_rule_tag, msg_content) ==
  LinkStep("assignMessageToRuleSet",
           [ruleset_id |-> ruleset_id, shared_rule_tag |-> shared_rule_tag, msg_content |-> msg_content],
           assignMessageToRuleSet(Fresh, ruleset_id, shared_rule_tag, msg_content))

\* a qubit becomes a resource (bell_pair_store.insertEntangledQubit, as the tests call it)
InsertResource(partner_addr, rec) ==
  LinkStep("insertEntangledQubit", [partner |-> partner_addr, qubit |-> rec],
           insertEntangledQubit(Fresh, partner_addr, rec))

\* RuleEngine::executeAllRuleSets, as a call made during the operation
LinkExecuteAllRuleSets(l) == Effect(l, [call |-> "exec"])

\* a call of handleMessage that allocates nothing
SkipAllocation(l) == l

\* the three loops of handleMessage over the interfaces: ResourceAllocation for
\* the QNIC_E interface, then for every QNIC_R interface (the link holds
\* none), then for the QNIC_RP interface
LinkAllocateAll(l) ==
  LET of_e == LinkResourceAllocation(Effect(l, [call |-> "allocateResources", qnic_type |-> "QNIC_E"]), "QNIC_E")
  IN  LinkResourceAllocation(Effect(of_e, [call |-> "allocateResources", qnic_type |-> "QNIC_RP"]), "QNIC_RP")

\* handleMessage up to the loop over the drained events
BeforeDispatch(l) == Effect(LinkExecuteAllRuleSets(l), [call |-> "publish"])

\* handleMessage after that loop, for an event whose case returned false
AfterDispatch(l) == Effect(LinkExecuteAllRuleSets(LinkAllocateAll(l)), [call |-> "delete"])

\* RuleEngine::handleMessage for a CombinedBSAresults message
HandleBsmResultMessage(bsa_result) ==
  LinkStep("handleMessage", [type |-> "BSM_RESULT", payload |-> bsa_result],
           AfterDispatch(LinkGenerationResult(BeforeDispatch(Fresh), bsa_result, Len(bsa_result.indices))))

\* RuleEngine::handleMessage for an MSMResult message
HandleMSMResultMessage(msm_result) ==
  LinkStep("handleMessage", [type |-> "MSM_RESULT", payload |-> msm_result],
           AfterDispatch(LinkMSMResult(BeforeDispatch(Fresh), msm_result)))

\* the qubits of the QNIC_E interface that are not busy
FreeEmitters(l) == {r \in QubitRecords : r[1] = "QNIC_E" /\ ~l.busy[r]}

\* a request that is taken for the last one whatever is free
AlwaysLast(number_of_free_emitters) == TRUE

\* is_last = (number_of_free_emitters == 1)
IsLastEmitter(number_of_free_emitters) == number_of_free_emitters = 1

\* case BSM_TIMING with the timer: stopOnGoingPhotonEmission,
\* freeFailedEntanglementAttemptQubits, schedulePhotonEmission (setFirst(true))
TimedBsmTiming(l) ==
  LET cancelled == Effect([l EXCEPT !.timer.scheduled = FALSE], [call |-> "cancelEvent"])
      freed == ReleaseEmitted(cancelled, cancelled.emitted_indices)
      scheduled == Effect([freed EXCEPT !.timer = [scheduled |-> TRUE, first |-> TRUE]], [call |-> "scheduleAt"])
  IN  [scheduled EXCEPT !.train = <<>>, !.train_free = Cardinality(FreeEmitters(freed)), !.train_clean = TRUE]

\* case EMIT_PHOTON_REQUEST for the timer of the QNIC_E interface, which is
\* no longer scheduled once it is delivered; qubit_index is what
\* takeFreeQubitIndex returned
TimedEmitPhoton(l, number_of_free_emitters, qubit_index) ==
  LET delivered == [l EXCEPT !.timer.scheduled = FALSE]
      took == IF qubit_index = -1 THEN delivered ELSE setQubitBusy(delivered, <<"QNIC_E", qubit_index>>, TRUE)
  IN  IF number_of_free_emitters = 0 THEN took
      ELSE LET is_first == took.timer.first
               is_last == IsLastEmitter(number_of_free_emitters)
               signalled ==
                 [Effect(took, [call |-> "EmitPhoton", qubit |-> <<"QNIC_E", qubit_index>>,
                                first |-> is_first, last |-> is_last])
                    EXCEPT !.timer.first = FALSE,
                           !.emitted_indices = Append(@, qubit_index),
                           !.train = Append(@, [qubit_index |-> qubit_index, first |-> is_first, last |-> is_last])]
           IN  IF is_last THEN signalled
               ELSE Effect([signalled EXCEPT !.timer.scheduled = TRUE], [call |-> "scheduleAt"])

\* an event other than the firing of the timer came in between
Intervening(l) == [l EXCEPT !.train_clean = FALSE]

OnTimedBsmTiming == LinkStep("BSM_TIMING", [timed |-> TRUE], TimedBsmTiming(Fresh))

OnTimerFired ==
  /\ link.timer.scheduled
  /\ \E qubit_index \in (IF FreeEmitters(link) = {} THEN {-1} ELSE {r[2] : r \in FreeEmitters(link)}) :
       LinkStep("EMIT_PHOTON_REQUEST", [is_msm |-> FALSE, qubit_index |-> qubit_index, timed |-> TRUE],
                TimedEmitPhoton(Fresh, Cardinality(FreeEmitters(link)), qubit_index))

\* a request to emit that is not the timer
OnOtherEmitPhotonRequest ==
  \E qubit_index \in (IF FreeEmitters(link) = {} THEN {-1} ELSE {r[2] : r \in FreeEmitters(link)}) :
    LinkStep("EMIT_PHOTON_REQUEST", [is_msm |-> FALSE, qubit_index |-> qubit_index, timed |-> FALSE],
             Intervening(EmitPhoton(Fresh, FALSE, Cardinality(FreeEmitters(link)), qubit_index)))

OnInterveningBsmResult(bsa_result) ==
  LinkStep("BSM_RESULT", bsa_result, Intervening(LinkGenerationResult(Fresh, bsa_result, Len(bsa_result.indices))))

\* the ascending sequence of the numbers of a set
RECURSIVE Ascending(_)
Ascending(S) ==
  IF S = {} THEN <<>>
  ELSE LET least == CHOOSE x \in S : \A y \in S : x <= y IN <<least>> \o Ascending(S \ {least})

\* the results a BSA reports for the photons emitted so far: photon indices in
\* ascending order, each at most once, with one correction per success
BSAResults ==
  {[indices |-> Ascending(S), corrections |-> [i \in 1..Cardinality(S) |-> c], neighbor |-> p] :
     S \in SUBSET (0..(Len(link.emitted_indices) - 1)), c \in {"I", "X"}, p \in PartnerAddresses}

ClickResults == [success : BOOLEAN, correction_operation : {"I", "Z"}]

MSMResults == [photon_index : 1..2, success : BOOLEAN, correction_operation : {"I", "Z"}]

InitLink == InitBusVars /\ InitCMVars /\ InitREVars /\ InitLinkVars /\ InitBackendVars

NextLink ==
  \/ OnBsmTiming
  \/ \E p \in PartnerAddresses : OnEppsTiming(p)
  \/ \E is_msm \in BOOLEAN : OnEmitPhotonRequest(is_msm)
  \/ \E click_result \in ClickResults : OnSingleClickResult(click_result)
  \/ \E msm_result \in MSMResults : OnMSMResult(msm_result)
  \/ \E bsa_result \in BSAResults : OnBsmResult(bsa_result)
  \/ \E rec \in QubitRecords : FreeConsumedResource(rec)

SpecLink == InitLink /\ [][NextLink]_vars

----------------------------------------------------------------------------
(* The two ends of an MSM link *)

MaxPairOps == 7

NodeAddresses == {1, 2, 3}

\* the MSMResults a handler sent, as the partner receives them
SentResults(l) ==
  LET sends == SelectSeq(l.effects, LAMBDA e : e.call = "send")
  IN  [i \in DOMAIN sends |->
         [photon_index |-> sends[i].photon_index, success |-> sends[i].success,
          correction_operation |-> sends[i].correction_operation]]

\* one handler ran at the end x and its MSMResults left for the other end
PairStep(x, after, awaiting, done, inbox) ==
  /\ pair.n < MaxPairOps
  /\ pair' = [pair EXCEPT !.node[x] = after,
                          !.inbox = [inbox EXCEPT ![Other(x)] = @ \o SentResults(after)],
                          !.awaiting[x] = awaiting,
                          !.done = @ \cup done,
                          !.n = @ + 1]
  /\ UNCHANGED <<backend_vars, bus_vars, cm_vars, re_vars, link, link_last>>

\* the node handles an MSM EMIT_PHOTON_REQUEST when no photon of its own waits for a click
PairEmitPhotonRequest(x) ==
  LET l == [pair.node[x] EXCEPT !.effects = <<>>]
      free == {r \in QubitRecords : r[1] = "QNIC_RP" /\ ~l.busy[r]}
  IN  /\ ~pair.awaiting[x]
      /\ \E qubit_index \in (IF free = {} THEN {-1} ELSE {r[2] : r \in free}) :
           PairStep(x, EmitPhoton(l, TRUE, Cardinality(free), qubit_index), free # {}, {}, pair.inbox)

\* the click of the photon the node emitted
PairSingleClickResult(x, click_result) ==
  /\ pair.awaiting[x]
  /\ PairStep(x, LinkSingleClickResult([pair.node[x] EXCEPT !.effects = <<>>], click_result), FALSE, {}, pair.inbox)

\* the node handles the oldest MSMResult the other end sent
PairMSMResult(x) ==
  /\ pair.inbox[x] # <<>>
  /\ LET l == [pair.node[x] EXCEPT !.effects = <<>>]
         msm_result == Head(pair.inbox[x])
         after == MSMResultAt(pair.address[x], l, msm_result)
         known == msm_result.photon_index \in DOMAIN l.qubit_postprocess_info
     IN  PairStep(x, after, pair.awaiting[x],
                  {[at       |-> x,
                    msg      |-> msm_result,
                    known    |-> known,
                    local    |-> IF known THEN l.qubit_postprocess_info[msm_result.photon_index].correction_operation
                                          ELSE "none",
                    z        |-> \E i \in DOMAIN after.effects : after.effects[i].call = "applyZGate",
                    inserted |-> Len(after.bell_pair_store) = Len(l.bell_pair_store) + 1]},
                  [pair.inbox EXCEPT ![x] = Tail(@)])

InitPair ==
  /\ InitBusVars /\ InitCMVars /\ InitREVars /\ InitLinkOnly /\ InitBackendVars
  /\ pair \in {NewPair(a, b) : <<a, b>> \in {ab \in NodeAddresses \X NodeAddresses : ab[1] # ab[2]}}

NextPair ==
  \/ \E x \in Ends : PairEmitPhotonRequest(x)
  \/ \E x \in Ends, click_result \in ClickResults : PairSingleClickResult(x, click_result)
  \/ \E x \in Ends : PairMSMResult(x)

SpecPair == InitPair /\ [][NextPair]_vars

NextAlloc ==
  \/ \E partners \in {{1}, {1, 3}} : SubmitRuleSet(partners)
  \/ \E p \in PartnerAddresses, rec \in QubitRecords : InsertResource(p, rec)
  \/ \E qnic_type \in {"QNIC_E", "QNIC_RP"} : AllocateResources(qnic_type)
  \/ \E rec \in QubitRecords : FreeConsumedResource(rec)

SpecAlloc == InitLink /\ [][NextAlloc]_vars

\* the identifiers a reply can name: those of the first two RuleSets and one
\* that no RuleSet has (9999 in the facade's test)
RepliedRuleSetIds == {100, 101, 9999}

NextAssign ==
  \/ \E partners \in {{1}, {1, 3}} : SubmitRuleSet(partners)
  \/ \E rec \in QubitRecords : InsertResource(1, rec)
  \/ AllocateResources("QNIC_E")
  \/ \E ruleset_id \in RepliedRuleSetIds, shared_rule_tag \in {0, 1} :
       AssignMessageToRuleSet(ruleset_id, shared_rule_tag, <<1, 2, 3>>)

SpecAssign == InitLink /\ [][NextAssign]_vars

\* whole calls of handleMessage on a node with runtimes and an emission going on
NextHandle ==
  \/ \E partners \in {{1}, {1, 3}} : SubmitRuleSet(partners)
  \/ \E p \in PartnerAddresses : OnEppsTiming(p)
  \/ \E is_msm \in BOOLEAN : OnEmitPhotonRequest(is_msm)
  \/ \E click_result \in ClickResults : OnSingleClickResult(click_result)
  \/ \E bsa_result \in BSAResults : HandleBsmResultMessage(bsa_result)
  \/ \E msm_result \in MSMResults : HandleMSMResultMessage(msm_result)

SpecHandle == InitLink /\ [][NextHandle]_vars

\* the emission trains of the QNIC_E interface
NextEmission ==
  \/ OnTimedBsmTiming
  \/ OnTimerFired
  \/ OnOtherEmitPhotonRequest
  \/ \E bsa_result \in BSAResults : OnInterveningBsmResult(bsa_result)

SpecEmission == InitLink /\ [][NextEmission]_vars

----------------------------------------------------------------------------
(* modules/QRSA/ConnectionManager: interface reservations and the responses
   of the responder.  ConnectionManager.h declares the members; their bodies
   follow the specification and the expectations of ConnectionManager_test.cc *)

MaxQnicOps == 3
MaxRespondCalls == 2

\* the interface addresses of the QnicReservation test, and one more
QnicAddresses == {13, 15, 17}

\* ConnectionManager::isQnicBusy
isQnicBusy(reserved, qnic_address) == \E i \in 1..Len(reserved) : reserved[i] = qnic_address

\* the reservations after reserveQnic(qnic_address)
Reserved(reserved, qnic_address) ==
  IF isQnicBusy(reserved, qnic_address) THEN reserved ELSE Append(reserved, qnic_address)

\* a release that drops the newest reservation, whichever interface holds it
ReleasedNewest(reserved, qnic_address) == SubSeq(reserved, 1, Len(reserved) - 1)

\* the reservations after releaseQnic(qnic_address)
Released(reserved, qnic_address) == SelectSeq(reserved, LAMBDA a : a # qnic_address)

ReservationCall(op, qnic_address, after) ==
  /\ cm_last.n < MaxQnicOps
  /\ reserved_qnics' = after
  /\ cm_last' = [op |-> op, n |-> cm_last.n + 1, qnic_address |-> qnic_address,
                 before |-> reserved_qnics,
                 prev_op |-> cm_last.op,
                 prev_qnic |-> IF cm_last.op = "none" THEN 0 ELSE cm_last.qnic_address]
  /\ UNCHANGED <<backend_vars, bus_vars, re_vars, link_vars, connection_setup_response_state, cm_router_out, cm_log>>

\* ConnectionManager::reserveQnic
reserveQnic(qnic_address) ==
  ReservationCall("reserveQnic", qnic_address, Reserved(reserved_qnics, qnic_address))

\* ConnectionManager::releaseQnic
releaseQnic(qnic_address) ==
  ReservationCall("releaseQnic", qnic_address, Released(reserved_qnics, qnic_address))

NextReserve ==
  \/ \E qnic_address \in QnicAddresses : reserveQnic(qnic_address)
  \/ \E qnic_address \in QnicAddresses : releaseQnic(qnic_address)

SpecReserve == InitCM /\ [][NextReserve]_vars

\* ConnectionManager::my_address of the responder (getNodeAddr of the test)
my_address == 5

\* the nodes a request can have crossed on its way to the responder
PathNodes == {2, 3, 4}

RECURSIVE SimplePaths(_)
\* the sequences of n distinct nodes
SimplePaths(n) ==
  IF n = 0 THEN {<<>>}
  ELSE UNION {{Append(p, node) : node \in PathNodes \ {p[i] : i \in 1..Len(p)}} :
              p \in SimplePaths(n - 1)}

MaxSwappers == 2

\* ConnectionSetupRequests as they reach the responder: the initiator and
\* every swapper have pushed their address on stack_of_QNodeIndexes
SetupRequests ==
  {[actual_srcAddr |-> stack[1], actual_destAddr |-> my_address, stack_of_QNodeIndexes |-> stack] :
     stack \in UNION {SimplePaths(n) : n \in 1..(MaxSwappers + 1)}}

\* the values createUniqueId may return (1234 in the test)
UniqueIds == {1234, 1235}

\* the nodes of the request's stack only, without the responder
StackNodes(pk) == pk.stack_of_QNodeIndexes

\* the nodes that take part in the connection: initiator, swappers, responder
ParticipatingNodes(pk) == Append(pk.stack_of_QNodeIndexes, my_address)

\* the swap rules of a path in the order they are emitted: the i-th swapper
\* swaps between the node before it and the responder, under tag i
SwapRules(pk) ==
  LET path == ParticipatingNodes(pk)
  IN  [i \in 1..(Len(path) - 2) |->
         [type |-> "swapping", swapper |-> path[i + 1], left |-> path[i],
          right |-> path[Len(path)], shared_rule_tag |-> i]]

\* a correction rule that goes to the left partner of the swap only
CorrectedPartnersLeftOnly(swap) == {swap.left}

\* the nodes that get a swapping-correction rule for a swap rule
CorrectedPartners(swap) == {swap.left, swap.right}

\* the rules of the RuleSet for `node`: its swap rule if it is a swapper, a
\* swapping-correction rule for every swap it is a partner of, and the
\* tomography rule if it is an end of the path
RulesFor(pk, node) ==
  LET path == ParticipatingNodes(pk)
      swaps == SwapRules(pk)
      ends == {path[1], path[Len(path)]}
  IN  {swaps[i] : i \in {j \in 1..Len(swaps) : swaps[j].swapper = node}}
      \cup {[type |-> "swapping_correction", partner_address |-> swaps[i].swapper,
             receive_tag |-> swaps[i].shared_rule_tag, send_tag |-> -1] :
              i \in {j \in 1..Len(swaps) : node \in CorrectedPartners(swaps[j])}}
      \cup {[type |-> "tomography", partner_address |-> other] :
              other \in IF node \in ends THEN ends \ {node} ELSE {}}

\* ConnectionManager::respondToRequest: one ConnectionSetupResponse per
\* participating node, each with the RuleSet of that node, all RuleSets
\* under the one id createUniqueId returned
respondToRequest(pk, ruleset_id) ==
  LET path == ParticipatingNodes(pk)
      responses == [i \in 1..Len(path) |->
                      [cls |-> "ConnectionSetupResponse", SrcAddr |-> my_address,
                       DestAddr |-> path[i], ruleset_id |-> ruleset_id,
                       ruleset_owner_address |-> path[i],
                       rules |-> RulesFor(pk, path[i])]]
  IN  /\ cm_last.n < MaxRespondCalls
      /\ cm_router_out' = cm_router_out \o responses
      /\ cm_last' = [op |-> "respondToRequest", n |-> cm_last.n + 1, pk |-> pk,
                     ruleset_id |-> ruleset_id, sent_before |-> Len(cm_router_out)]
      /\ UNCHANGED <<backend_vars, bus_vars, re_vars, link_vars, connection_setup_response_state, cm_log, reserved_qnics>>

NextRespond ==
  \E pk \in SetupRequests, ruleset_id \in UniqueIds : respondToRequest(pk, ruleset_id)

SpecRespond == InitCM /\ [][NextRespond]_vars

----------------------------------------------------------------------------
(* modules/Backend: QutipBackend (dense operators, run by a worker process)  *)
(* and ErrorBasisBackend.  An operation kind is a sequence of characters; a  *)
(* qubit handle is TRUE when it is valid (all indices >= 0, and the legacy   *)
(* backend has the qubit), FALSE otherwise.  A message is a record of the    *)
(* literal pieces of text it is built from and the values put between them.  *)

MaxBackendOps == 2

UpperCase == <<"A", "B", "C", "D", "E", "F", "G", "H", "I", "J", "K", "L", "M",
               "N", "O", "P", "Q", "R", "S", "T", "U", "V", "W", "X", "Y", "Z">>

LowerCase == <<"a", "b", "c", "d", "e", "f", "g", "h", "i", "j", "k", "l", "m",
               "n", "o", "p", "q", "r", "s", "t", "u", "v", "w", "x", "y", "z">>

\* std::tolower
tolower(ch) ==
  IF \E i \in 1..Len(UpperCase) : UpperCase[i] = ch
    THEN LowerCase[CHOOSE i \in 1..Len(UpperCase) : UpperCase[i] = ch]
    ELSE ch

normalizeKind(kind) == [i \in 1..Len(kind) |-> tolower(kind[i])]

\* the loop `while (normalized.find("__") != npos) normalized.replace(pos, 2, "_")`
RECURSIVE CollapseUnderscores(_)
CollapseUnderscores(s) ==
  IF \E p \in 1..(Len(s) - 1) : s[p] = "_" /\ s[p + 1] = "_"
    THEN LET pos == CHOOSE p \in 1..(Len(s) - 1) :
                      /\ s[p] = "_" /\ s[p + 1] = "_"
                      /\ \A q \in 1..(p - 1) : ~(s[q] = "_" /\ s[q + 1] = "_")
         IN  CollapseUnderscores(SubSeq(s, 1, pos) \o SubSeq(s, pos + 2, Len(s)))
    ELSE s

\* the table of aliases of normalizeAdvancedKind
aliases ==
  {<<<<"n", "o", "_", "o", "p">>, <<"n", "o", "o", "p">>>>,
   <<<<"h", "o", "m", "i", "n", "t", "e", "r", "f", "e", "r", "e", "n", "c", "e">>, <<"h", "o", "m", "_", "i", "n", "t", "e", "r", "f", "e", "r", "e", "n", "c", "e">>>>,
   <<<<"m", "e", "a", "s", "u", "r", "e">>, <<"m", "e", "a", "s", "u", "r", "e", "m", "e", "n", "t">>>>,
   <<<<"k", "e", "r", "r", "e", "f", "f", "e", "c", "t">>, <<"k", "e", "r", "r">>>>,
   <<<<"k", "e", "r", "r", "_", "e", "f", "f", "e", "c", "t">>, <<"k", "e", "r", "r">>>>,
   <<<<"k", "e", "r", "r", "_", "e", "f", "f", "e", "c", "t", "s">>, <<"k", "e", "r", "r">>>>,
   <<<<"c", "r", "o", "s", "s", "_", "k", "e", "r", "r", "i", "n", "g">>, <<"c", "r", "o", "s", "s", "_", "k", "e", "r", "r">>>>,
   <<<<"c", "r", "o", "s", "s", "_", "k", "e", "r", "r", "_", "e", "f", "f", "e", "c", "t">>, <<"c", "r", "o", "s", "s", "_", "k", "e", "r", "r">>>>,
   <<<<"c", "r", "o", "s", "s", "k", "e", "r", "r">>, <<"c", "r", "o", "s", "s", "_", "k", "e", "r", "r">>>>,
   <<<<"a", "m", "p", "l", "i", "t", "u", "d", "e", "_", "d", "a", "m", "p", "i", "n", "g">>, <<"a", "m", "p", "l", "i", "t", "u", "d", "e", "_", "d", "a", "m", "p", "i", "n", "g">>>>,
   <<<<"a", "m", "p", "l", "i", "t", "u", "d", "e", "d", "a", "m", "p", "i", "n", "g">>, <<"a", "m", "p", "l", "i", "t", "u", "d", "e", "_", "d", "a", "m", "p", "i", "n", "g">>>>,
   <<<<"b", "i", "t", "_", "f", "l", "i", "p">>, <<"b", "i", "t", "f", "l", "i", "p">>>>,
   <<<<"p", "h", "a", "s", "e", "_", "f", "l", "i", "p">>, <<"p", "h", "a", "s", "e", "f", "l", "i", "p">>>>,
   <<<<"d", "e", "p", "o", "l", "a", "r", "i", "z", "i", "n", "g", "_", "c", "h", "a", "n", "n", "e", "l">>, <<"d", "e", "p", "o", "l", "a", "r", "i", "z", "i", "n", "g">>>>,
   <<<<"t", "h", "e", "r", "m", "a", "l", "_", "r", "e", "l", "a", "x", "a", "t", "i", "o", "n">>, <<"t", "h", "e", "r", "m", "a", "l", "_", "r", "e", "l", "a", "x", "a", "t", "i", "o", "n">>>>,
   <<<<"p", "o", "l", "a", "r", "i", "z", "a", "t", "i", "o", "n", "_", "r", "o", "t", "a", "t", "i", "o", "n">>, <<"p", "o", "l", "a", "r", "i", "z", "a", "t", "i", "o", "n", "_", "r", "o", "t", "a", "t", "i", "o", "n">>>>,
   <<<<"p", "o", "l", "a", "r", "i", "z", "a", "t", "i", "o", "n", "r", "o", "t", "a", "t", "i", "o", "n">>, <<"p", "o", "l", "a", "r", "i", "z", "a", "t", "i", "o", "n", "_", "r", "o", "t", "a", "t", "i", "o", "n">>>>,
   <<<<"p", "o", "l", "a", "r", "i", "z", "a", "t", "i", "o", "n", "_", "d", "e", "c", "o", "h", "e", "r", "e", "n", "c", "e">>, <<"p", "o", "l", "a", "r", "i", "z", "a", "t", "i", "o", "n", "_", "d", "e", "c", "o", "h", "e", "r", "e", "n", "c", "e">>>>,
   <<<<"p", "o", "l", "a", "r", "i", "z", "a", "t", "i", "o", "n", "d", "e", "c", "o", "h", "e", "r", "e", "n", "c", "e">>, <<"p", "o", "l", "a", "r", "i", "z", "a", "t", "i", "o", "n", "_", "d", "e", "c", "o", "h", "e", "r", "e", "n", "c", "e">>>>,
   <<<<"m", "o", "d", "e", "_", "c", "o", "u", "p", "l", "i", "n", "g">>, <<"m", "o", "d", "e", "_", "c", "o", "u", "p", "l", "i", "n", "g">>>>,
   <<<<"l", "o", "s", "s", "_", "m", "o", "d", "e">>, <<"l", "o", "s", "s", "_", "m", "o", "d", "e">>>>,
   <<<<"t", "w", "o", "_", "m", "o", "d", "e", "_", "s", "q", "u", "e", "e", "z", "i", "n", "g">>, <<"t", "w", "o", "_", "m", "o", "d", "e", "_", "s", "q", "u", "e", "e", "z", "i", "n", "g">>>>,
   <<<<"t", "w", "o", "_", "m", "o", "d", "e", "s", "_", "s", "q", "u", "e", "e", "z", "i", "n", "g">>, <<"t", "w", "o", "_", "m", "o", "d", "e", "_", "s", "q", "u", "e", "e", "z", "i", "n", "g">>>>,
   <<<<"f", "o", "c", "k", "_", "l", "o", "s", "s">>, <<"f", "o", "c", "k", "_", "l", "o", "s", "s">>>>,
   <<<<"p", "h", "o", "t", "o", "n", "_", "n", "u", "m", "b", "e", "r", "_", "c", "u", "t", "o", "f", "f">>, <<"p", "h", "o", "t", "o", "n", "_", "n", "u", "m", "b", "e", "r", "_", "c", "u", "t", "o", "f", "f">>>>,
   <<<<"h", "o", "m">>, <<"h", "o", "m", "_", "i", "n", "t", "e", "r", "f", "e", "r", "e", "n", "c", "e">>>>,
   <<<<"t", "w", "o", "p", "h", "o", "t", "o", "n", "_", "i", "n", "t", "e", "r", "f", "e", "r", "e", "n", "c", "e">>, <<"h", "o", "m", "_", "i", "n", "t", "e", "r", "f", "e", "r", "e", "n", "c", "e">>>>,
   <<<<"t", "w", "o", "_", "p", "h", "o", "t", "o", "n", "_", "i", "n", "t", "e", "r", "f", "e", "r", "e", "n", "c", "e">>, <<"h", "o", "m", "_", "i", "n", "t", "e", "r", "f", "e", "r", "e", "n", "c", "e">>>>,
   <<<<"b", "s", "_", "i", "n", "t", "e", "r", "f", "e", "r", "e", "n", "c", "e">>, <<"h", "o", "m", "_", "i", "n", "t", "e", "r", "f", "e", "r", "e", "n", "c", "e">>>>,
   <<<<"b", "s", "i", "n", "t", "e", "r", "f", "e", "r", "e", "n", "c", "e">>, <<"h", "o", "m", "_", "i", "n", "t", "e", "r", "f", "e", "r", "e", "n", "c", "e">>>>,
   <<<<"s", "o", "u", "r", "c", "e", "_", "m", "u", "l", "t", "i", "p", "h", "o", "t", "o", "n">>, <<"s", "o", "u", "r", "c", "e", "_", "m", "u", "l", "t", "i", "p", "h", "o", "t", "o", "n">>>>,
   <<<<"m", "u", "l", "t", "i", "p", "h", "o", "t", "o", "n", "_", "s", "o", "u", "r", "c", "e">>, <<"s", "o", "u", "r", "c", "e", "_", "m", "u", "l", "t", "i", "p", "h", "o", "t", "o", "n">>>>,
   <<<<"m", "u", "l", "t", "i", "_", "p", "h", "o", "t", "o", "n", "_", "s", "o", "u", "r", "c", "e">>, <<"s", "o", "u", "r", "c", "e", "_", "m", "u", "l", "t", "i", "p", "h", "o", "t", "o", "n">>>>,
   <<<<"p", "h", "o", "t", "o", "n", "_", "s", "o", "u", "r", "c", "e">>, <<"s", "o", "u", "r", "c", "e", "_", "m", "u", "l", "t", "i", "p", "h", "o", "t", "o", "n">>>>,
   <<<<"c", "r", "o", "s", "s", "k", "e", "r", "r">>, <<"c", "r", "o", "s", "s", "_", "k", "e", "r", "r">>>>,
   <<<<"b", "e", "a", "m", "s", "p", "l", "i", "t", "t", "e", "r">>, <<"b", "e", "a", "m", "_", "s", "p", "l", "i", "t", "t", "e", "r">>>>,
   <<<<"p", "h", "a", "s", "e", "s", "h", "i", "f", "t">>, <<"p", "h", "a", "s", "e", "_", "s", "h", "i", "f", "t">>>>,
   <<<<"p", "h", "a", "s", "e", "s", "h", "i", "f", "t", "e", "r">>, <<"p", "h", "a", "s", "e", "_", "s", "h", "i", "f", "t">>>>,
   <<<<"p", "h", "a", "s", "e", "_", "s", "h", "i", "f", "t", "e", "r">>, <<"p", "h", "a", "s", "e", "_", "s", "h", "i", "f", "t">>>>,
   <<<<"c", "h", "a", "n", "n", "e", "l", "_", "d", "i", "s", "p", "e", "r", "s", "i", "o", "n">>, <<"d", "i", "s", "p", "e", "r", "s", "i", "o", "n">>>>,
   <<<<"f", "i", "b", "r", "e", "_", "d", "i", "s", "p", "e", "r", "s", "i", "o", "n">>, <<"d", "i", "s", "p", "e", "r", "s", "i", "o", "n">>>>,
   <<<<"f", "i", "b", "e", "r", "_", "d", "i", "s", "p", "e", "r", "s", "i", "o", "n">>, <<"d", "i", "s", "p", "e", "r", "s", "i", "o", "n">>>>,
   <<<<"p", "h", "a", "s", "e", "_", "m", "o", "d">>, <<"p", "h", "a", "s", "e", "_", "m", "o", "d", "u", "l", "a", "t", "i", "o", "n">>>>,
   <<<<"p", "h", "a", "s", "e", "_", "m", "o", "d", "u", "l", "a", "t", "o", "r">>, <<"p", "h", "a", "s", "e", "_", "m", "o", "d", "u", "l", "a", "t", "i", "o", "n">>>>,
   <<<<"s", "e", "l", "f", "_", "p", "h", "a", "s", "e", "_", "m", "o", "d">>, <<"s", "e", "l", "f", "_", "p", "h", "a", "s", "e", "_", "m", "o", "d", "u", "l", "a", "t", "i", "o", "n">>>>,
   <<<<"s", "e", "l", "f", "_", "p", "h", "a", "s", "e", "_", "m", "o", "d", "u", "l", "a", "t", "o", "r">>, <<"s", "e", "l", "f", "_", "p", "h", "a", "s", "e", "_", "m", "o", "d", "u", "l", "a", "t", "i", "o", "n">>>>,
   <<<<"c", "r", "o", "s", "s", "_", "p", "h", "a", "s", "e", "_", "m", "o", "d">>, <<"c", "r", "o", "s", "s", "_", "p", "h", "a", "s", "e", "_", "m", "o", "d", "u", "l", "a", "t", "i", "o", "n">>>>,
   <<<<"c", "r", "o", "s", "s", "_", "p", "h", "a", "s", "e", "_", "m", "o", "d", "u", "l", "a", "t", "o", "r">>, <<"c", "r", "o", "s", "s", "_", "p", "h", "a", "s", "e", "_", "m", "o", "d", "u", "l", "a", "t", "i", "o", "n">>>>,
   <<<<"d", "e", "p", "h", "a", "s", "e">>, <<"d", "e", "p", "h", "a", "s", "i", "n", "g">>>>,
   <<<<"d", "e", "c", "a", "y">>, <<"d", "e", "c", "o", "h", "e", "r", "e", "n", "c", "e">>>>,
   <<<<"t", "i", "m", "i", "n", "g", "j", "i", "t", "t", "e", "r">>, <<"t", "i", "m", "i", "n", "g", "_", "j", "i", "t", "t", "e", "r">>>>,
   <<<<"t", "i", "m", "i", "n", "g", "_", "j", "i", "t", "t", "e", "r">>, <<"t", "i", "m", "i", "n", "g", "_", "j", "i", "t", "t", "e", "r">>>>,
   <<<<"t", "i", "m", "e", "_", "j", "i", "t", "t", "e", "r">>, <<"t", "i", "m", "i", "n", "g", "_", "j", "i", "t", "t", "e", "r">>>>,
   <<<<"t", "i", "m", "e", "j", "i", "t", "t", "e", "r">>, <<"t", "i", "m", "i", "n", "g", "_", "j", "i", "t", "t", "e", "r">>>>,
   <<<<"j", "i", "t", "t", "e", "r">>, <<"t", "i", "m", "i", "n", "g", "_", "j", "i", "t", "t", "e", "r">>>>,
   <<<<"d", "a", "r", "k", "_", "c", "o", "u", "n", "t">>, <<"d", "e", "t", "e", "c", "t", "i", "o", "n">>>>,
   <<<<"d", "e", "t", "e", "c", "t", "o", "r">>, <<"d", "e", "t", "e", "c", "t", "i", "o", "n">>>>,
   <<<<"h", "e", "r", "a", "l", "d", "e", "d", "e", "n", "t", "a", "n", "g", "l", "e", "m", "e", "n", "t">>, <<"h", "e", "r", "a", "l", "d", "e", "d", "_", "e", "n", "t", "a", "n", "g", "l", "e", "m", "e", "n", "t">>>>}

kSupportedAdvancedKinds ==
  {<<"k", "e", "r", "r">>,
   <<"c", "r", "o", "s", "s", "_", "k", "e", "r", "r">>,
   <<"b", "e", "a", "m", "_", "s", "p", "l", "i", "t", "t", "e", "r">>,
   <<"p", "h", "a", "s", "e", "_", "s", "h", "i", "f", "t">>,
   <<"p", "h", "a", "s", "e", "_", "m", "o", "d", "u", "l", "a", "t", "i", "o", "n">>,
   <<"s", "e", "l", "f", "_", "p", "h", "a", "s", "e", "_", "m", "o", "d", "u", "l", "a", "t", "i", "o", "n">>,
   <<"c", "r", "o", "s", "s", "_", "p", "h", "a", "s", "e", "_", "m", "o", "d", "u", "l", "a", "t", "i", "o", "n">>,
   <<"d", "e", "c", "o", "h", "e", "r", "e", "n", "c", "e">>,
   <<"d", "e", "p", "h", "a", "s", "i", "n", "g">>,
   <<"n", "o", "n", "l", "i", "n", "e", "a", "r">>,
   <<"d", "e", "t", "e", "c", "t", "i", "o", "n">>,
   <<"d", "e", "l", "a", "y">>,
   <<"h", "a", "m", "i", "l", "t", "o", "n", "i", "a", "n">>,
   <<"l", "i", "n", "d", "b", "l", "a", "d">>,
   <<"h", "e", "r", "a", "l", "d", "e", "d", "_", "e", "n", "t", "a", "n", "g", "l", "e", "m", "e", "n", "t">>,
   <<"t", "i", "m", "i", "n", "g", "_", "j", "i", "t", "t", "e", "r">>,
   <<"d", "i", "s", "p", "e", "r", "s", "i", "o", "n">>,
   <<"m", "u", "l", "t", "i", "p", "h", "o", "t", "o", "n">>,
   <<"s", "o", "u", "r", "c", "e", "_", "m", "u", "l", "t", "i", "p", "h", "o", "t", "o", "n">>,
   <<"h", "o", "m", "_", "i", "n", "t", "e", "r", "f", "e", "r", "e", "n", "c", "e">>,
   <<"s", "q", "u", "e", "e", "z", "i", "n", "g">>,
   <<"l", "o", "s", "s">>,
   <<"r", "e", "s", "e", "t">>,
   <<"j", "i", "t", "t", "e", "r">>,
   <<"a", "t", "t", "e", "n", "u", "a", "t", "i", "o", "n">>,
   <<"a", "m", "p", "l", "i", "t", "u", "d", "e", "_", "d", "a", "m", "p", "i", "n", "g">>,
   <<"t", "h", "e", "r", "m", "a", "l", "_", "r", "e", "l", "a", "x", "a", "t", "i", "o", "n">>,
   <<"b", "i", "t", "f", "l", "i", "p">>,
   <<"p", "h", "a", "s", "e", "f", "l", "i", "p">>,
   <<"d", "e", "p", "o", "l", "a", "r", "i", "z", "i", "n", "g">>,
   <<"p", "o", "l", "a", "r", "i", "z", "a", "t", "i", "o", "n", "_", "r", "o", "t", "a", "t", "i", "o", "n">>,
   <<"p", "o", "l", "a", "r", "i", "z", "a", "t", "i", "o", "n", "_", "d", "e", "c", "o", "h", "e", "r", "e", "n", "c", "e">>,
   <<"m", "o", "d", "e", "_", "c", "o", "u", "p", "l", "i", "n", "g">>,
   <<"l", "o", "s", "s", "_", "m", "o", "d", "e">>,
   <<"t", "w", "o", "_", "m", "o", "d", "e", "_", "s", "q", "u", "e", "e", "z", "i", "n", "g">>,
   <<"f", "o", "c", "k", "_", "l", "o", "s", "s">>,
   <<"p", "h", "o", "t", "o", "n", "_", "n", "u", "m", "b", "e", "r", "_", "c", "u", "t", "o", "f", "f">>}

\* a normalisation that only lowers the case
LoweredOnly(kind) == normalizeKind(kind)

normalizeAdvancedKind(kind) ==
  LET lowered == normalizeKind(kind)
      replaced == [i \in 1..Len(lowered) |-> IF lowered[i] \in {"-", " "} THEN "_" ELSE lowered[i]]
      normalized == CollapseUnderscores(replaced)
  IN  IF \E a \in aliases : a[1] = normalized
        THEN (CHOOSE a \in aliases : a[1] = normalized)[2]
        ELSE normalized

Kind_noop == <<"n", "o", "o", "p">>
Kind_unitary == <<"u", "n", "i", "t", "a", "r", "y">>
Kind_measurement == <<"m", "e", "a", "s", "u", "r", "e", "m", "e", "n", "t">>
Kind_noise == <<"n", "o", "i", "s", "e">>

isAdvancedOperation(kind) == normalizeAdvancedKind(kind) \in kSupportedAdvancedKinds

validateQubitHandle(qubit) == qubit

hasValidTargets(targets) == targets # <<>> /\ \A i \in 1..Len(targets) : validateQubitHandle(targets[i])

hasValidControls(controls) == \A i \in 1..Len(controls) : validateQubitHandle(controls[i])

hasTargetCountMismatchForKind(kind, targets) ==
  IF kind = Kind_measurement \/ kind = Kind_noise THEN Len(targets) # 1 ELSE targets = <<>>

targetCountMismatchMessage(kind, target_count) ==
  IF kind = Kind_measurement
    THEN [literals |-> <<"qutip backend measurement operation expects exactly one target, target_count=">>,
          values |-> <<target_count>>]
  ELSE IF kind = Kind_noise
    THEN [literals |-> <<"qutip backend noise operation expects exactly one target, target_count=">>,
          values |-> <<target_count>>]
  ELSE [literals |-> <<"qutip backend operation is missing target(s), target_count=">>, values |-> <<target_count>>]

Text(literal) == [literals |-> <<literal>>, values |-> <<>>]

\* message + " [category=invalid_payload]"
InvalidPayload(message) == [message EXCEPT !.literals = Append(@, " [category=invalid_payload]")]

\* the category a literal piece of a message names, "" when it names none
CategoryOf(literal) ==
  CASE literal = " [category=invalid_payload]" -> "invalid_payload"
    [] literal = " [category=unsupported_kind]" -> "unsupported_kind"
    [] literal = ") [category=qutip_import]" -> "qutip_import"
    [] OTHER -> ""

\* QutipBackend::unsupported
unsupported(reason) == [success |-> FALSE, message |-> reason]

\* a capability check that runs again on every call
CheckedEveryTime(b, status) ==
  LET checked == [b EXCEPT !.qutip_runtime_checked_ = TRUE, !.checks_run = @ + 1]
  IN  IF status = 0
        THEN [checked EXCEPT !.qutip_runtime_available_ = TRUE]
        ELSE [checked EXCEPT !.qutip_runtime_available_ = FALSE,
                             !.qutip_runtime_check_error_ =
                                [literals |-> <<"qutip backend dependency check failed: ", " (status=",
                                                ") [category=qutip_import]">>,
                                 values |-> <<"import qutip, qutip_qip, qutip.qip", status>>]]

\* QutipBackend::checkQutipRuntimeAvailable: the backend after the call, whose
\* qutip_runtime_available_ is the value returned; status is what std::system
\* gives for the import command
checkQutipRuntimeAvailable(b, status) ==
  IF b.qutip_runtime_checked_ THEN b
  ELSE LET checked == [b EXCEPT !.qutip_runtime_checked_ = TRUE, !.checks_run = @ + 1]
       IN  IF status = 0
             THEN [checked EXCEPT !.qutip_runtime_available_ = TRUE]
             ELSE [checked EXCEPT !.qutip_runtime_available_ = FALSE,
                                  !.qutip_runtime_check_error_ =
                                     [literals |-> <<"qutip backend dependency check failed: ", " (status=",
                                                     ") [category=qutip_import]">>,
                                      values |-> <<"import qutip, qutip_qip, qutip.qip", status>>]]

\* what the environment does to one call: the exit status of the import
\* check, the exit status of the worker, and the success the worker reports
Environments == [check_status : {0, 1}, worker_status : {0, 1}, success : BOOLEAN]

\* the outcome of a call that never reaches the worker
Direct(b, result) == [backend |-> b, result |-> result, worker_backed |-> FALSE]

\* QutipBackend::executeQutipWorker
executeQutipWorker(b, env) ==
  LET checked == checkQutipRuntimeAvailable(b, env.check_status)
  IN  IF ~checked.qutip_runtime_available_
        THEN [backend |-> checked, result |-> unsupported(checked.qutip_runtime_check_error_),
              worker_backed |-> TRUE]
      ELSE LET ran == [checked EXCEPT !.workers_run = @ + 1]
           IN  IF env.worker_status # 0
                 THEN [backend |-> ran,
                       result |-> unsupported([literals |-> <<"qutip worker execution failed (status=", ")">>,
                                               values |-> <<env.worker_status>>]),
                       worker_backed |-> TRUE]
                 ELSE [backend |-> ran, result |-> [success |-> env.success, message |-> Text("")],
                       worker_backed |-> TRUE]

\* QutipBackend::runUnitary
runUnitary(b, gate, qubits, env) ==
  IF gate = "" THEN Direct(b, unsupported(Text("qutip backend unitary request missing gate")))
  ELSE IF qubits = <<>> THEN Direct(b, unsupported(Text("qutip backend unitary request missing target(s)")))
  ELSE IF \E i \in 1..Len(qubits) : ~validateQubitHandle(qubits[i])
    THEN Direct(b, unsupported(Text("qutip backend unitary request received invalid qubit handle")))
  ELSE executeQutipWorker(b, env)

\* QutipBackend::runMeasurement
runMeasurement(b, qubit, env) ==
  IF ~validateQubitHandle(qubit)
    THEN Direct(b, unsupported(Text("qutip backend measurement request received invalid qubit handle")))
    ELSE executeQutipWorker(b, env)

\* QutipBackend::runNoise
runNoise(b, qubit, env) ==
  IF ~validateQubitHandle(qubit)
    THEN Direct(b, unsupported(Text("qutip backend noise operation received invalid qubit handle")))
    ELSE executeQutipWorker(b, env)

\* QutipBackend::applyOperation (the backend_ pointer is set at construction)
QutipApplyOperation(b, operation, env) ==
  IF operation.kind = <<>>
    THEN Direct(b, unsupported(InvalidPayload(Text("qutip backend operation.kind is empty"))))
  ELSE LET normalized_kind == normalizeAdvancedKind(operation.kind)
       IN  IF normalized_kind = Kind_noop THEN Direct(b, [success |-> TRUE, message |-> Text("")])
           ELSE IF normalized_kind = Kind_unitary
             THEN IF operation.gate = ""
                    THEN Direct(b, unsupported(InvalidPayload(
                           Text("qutip backend unitary operation missing payload kind/gate"))))
                  ELSE IF hasTargetCountMismatchForKind(normalized_kind, operation.targets)
                    THEN Direct(b, unsupported(InvalidPayload(
                           Text("qutip backend unitary operation missing target(s)"))))
                  ELSE IF ~hasValidTargets(operation.targets)
                    THEN Direct(b, unsupported(InvalidPayload(
                           Text("qutip backend unitary operation received invalid qubit handle"))))
                  ELSE runUnitary(b, operation.gate, operation.targets, env)
           ELSE IF normalized_kind = Kind_measurement \/ normalized_kind = Kind_noise
             THEN IF hasTargetCountMismatchForKind(normalized_kind, operation.targets)
                    THEN Direct(b, unsupported(InvalidPayload(
                           targetCountMismatchMessage(normalized_kind, Len(operation.targets)))))
                  ELSE IF ~hasValidTargets(operation.targets)
                    THEN Direct(b, unsupported(InvalidPayload(Text(
                           IF normalized_kind = Kind_measurement
                             THEN "qutip backend measurement operation received invalid qubit handle"
                             ELSE "qutip backend noise operation received invalid qubit handle"))))
                  ELSE IF normalized_kind = Kind_measurement
                    THEN runMeasurement(b, operation.targets[1], env)
                    ELSE runNoise(b, operation.targets[1], env)
           ELSE IF isAdvancedOperation(normalized_kind)
             THEN IF hasTargetCountMismatchForKind(normalized_kind, operation.targets)
                    THEN Direct(b, unsupported(InvalidPayload(
                           targetCountMismatchMessage(normalized_kind, Len(operation.targets)))))
                  ELSE IF ~hasValidTargets(operation.targets)
                    THEN Direct(b, unsupported(InvalidPayload(
                           Text("qutip backend advanced operation missing/invalid target(s)"))))
                  ELSE IF ~hasValidControls(operation.controls)
                    THEN Direct(b, unsupported(InvalidPayload(
                           Text("qutip backend advanced operation invalid control handle(s)"))))
                  ELSE executeQutipWorker(b, env)
           ELSE Direct(b, unsupported([literals |-> <<"qutip backend does not support operation.kind=",
                                                      " [category=unsupported_kind]">>,
                                       values |-> <<operation.kind>>]))

\* QutipBackend::applyGate
QutipApplyGate(b, gate, qubits, env) == runUnitary(b, gate, qubits, env)

\* ErrorBasisBackend::applyGate, measure and applyNoise: they succeed when the
\* legacy backend has the qubit (and knows the gate)
ErrorBasisLegacy(targets, known) == [success |-> known /\ targets[1], message |-> Text("")]

\* ErrorBasisBackend::applyOperation
ErrorBasisApplyOperation(b, operation, env) ==
  IF operation.kind = Kind_unitary
    THEN IF operation.targets # <<>> /\ operation.gate # ""
           THEN Direct(b, ErrorBasisLegacy(operation.targets, operation.gate = "X"))
           ELSE Direct(b, unsupported(Text("missing gate payload or targets")))
  ELSE IF operation.kind = Kind_measurement
    THEN IF operation.targets = <<>>
           THEN Direct(b, unsupported(Text("measurement target missing")))
           ELSE Direct(b, ErrorBasisLegacy(operation.targets, TRUE))
  ELSE IF operation.kind = Kind_noise
    THEN IF operation.targets = <<>>
           THEN Direct(b, unsupported(Text("noise target missing")))
           ELSE Direct(b, ErrorBasisLegacy(operation.targets, TRUE))
  ELSE Direct(b, unsupported([literals |-> <<"unsupported operation kind: ">>, values |-> <<operation.kind>>]))

\* one call on a backend
BackendCall(op, instance, operation, out) ==
  /\ backend_last.n < MaxBackendOps
  /\ backend' = out.backend
  /\ backend_last' = [op |-> op, n |-> backend_last.n + 1, instance |-> instance, operation |-> operation,
                      result |-> out.result, worker_backed |-> out.worker_backed, before |-> backend]
  /\ UNCHANGED <<bus_vars, cm_vars, re_vars, link_vars>>

\* the kinds the operations name: empty, a basic kind, spellings that
\* normalise to a supported kind, and kinds that no backend knows
OperationKinds ==
  {<<>>, Kind_unitary, <<"m", "e", "a", "s", "u", "r", "e">>, <<"N", "o", "-", "O", "p">>, <<"C", "r", "o", "s", "s", "-", "K", "e", "r", "r">>,
   <<"k", "e", "r", "r", "_", "_", "e", "f", "f", "e", "c", "t">>, <<"n", "o", "t", "_", "a", "n", "_", "o", "p", "e", "r", "a", "t", "i", "o", "n">>}

Operations ==
  [kind : OperationKinds, targets : {<<>>, <<TRUE>>, <<FALSE>>},
   controls : {<<>>, <<FALSE>>}, gate : {"", "X"}]

ApplyOperationOnQutip(operation, env) ==
  BackendCall("applyOperation", "QutipBackend", operation, QutipApplyOperation(backend, operation, env))

ApplyGateOnQutip(gate, qubits, env) ==
  BackendCall("applyGate", "QutipBackend", [gate |-> gate, targets |-> qubits],
              QutipApplyGate(backend, gate, qubits, env))

ApplyOperationOnErrorBasis(operation) ==
  BackendCall("applyOperation", "ErrorBasisBackend", operation,
              ErrorBasisApplyOperation(backend, operation, [check_status |-> 0, worker_status |-> 0, success |-> TRUE]))

InitBackend == InitBusVars /\ InitCMVars /\ InitREVars /\ InitLinkVars /\ InitBackendVars

NextBackend ==
  \/ \E operation \in Operations, env \in Environments : ApplyOperationOnQutip(operation, env)
  \/ \E gate \in {"", "X"}, qubits \in {<<>>, <<TRUE>>, <<FALSE>>}, env \in Environments :
       ApplyGateOnQutip(gate, qubits, env)
  \/ \E operation \in Operations : ApplyOperationOnErrorBasis(operation)

SpecBackend == InitBackend /\ [][NextBackend]_vars


----------------------------------------------------------------------------
(* Claims on the event bus *)

HistIdx == 1..Len(bus_history)

IsDrain(i) == bus_history[i].op = "drain"

IsPublish(i) == bus_history[i].op = "publish"

SeqSet(s) == {s[i] : i \in 1..Len(s)}

\* C1: drain(now) returns exactly the queued events with time <= now, sorted
\* ascending by (time, event_number); the returned events leave the queue and
\* every event with time > now stays queued.
C1_DrainExactSortedPrefix ==
  \A i \in HistIdx : IsDrain(i) =>
    LET h == bus_history[i]
    IN  /\ SeqSet(h.out) = {e \in SeqSet(h.before) : e.time <= h.now}
        /\ Len(h.out) = Cardinality(SeqSet(h.out))
        /\ \A a, b \in 1..Len(h.out) : a < b =>
             \/ h.out[a].time < h.out[b].time
             \/ h.out[a].time = h.out[b].time /\ h.out[a].event_number <= h.out[b].event_number
        /\ SeqSet(h.after) = {e \in SeqSet(h.before) : e.time > h.now}
        /\ Len(h.after) = Cardinality(SeqSet(h.after))
        /\ (i = Len(bus_history) => event_queue = h.after)

\* a drain that had to reorder the queue, returned two events and left one queued
C1_Witness ==
  \E i \in HistIdx :
    /\ IsDrain(i)
    /\ Len(bus_history[i].out) >= 2
    /\ Len(bus_history[i].after) >= 1
    /\ bus_history[i].out # SubSeq(bus_history[i].before, 1, Len(bus_history[i].out))

\* C2: every published event is returned by exactly one drain, the first drain
\* after its publication called with now >= its time, and by no later drain.
C2_ReturnedExactlyOnceByFirstEligibleDrain ==
  \A i \in HistIdx : IsPublish(i) =>
    \A j \in HistIdx : (j > i /\ IsDrain(j)) =>
      LET e == bus_history[i].ev
          eligible(k) == k > i /\ IsDrain(k) /\ bus_history[k].now >= e.time
      IN  (e \in SeqSet(bus_history[j].out)) <=> (eligible(j) /\ \A k \in HistIdx : k < j => ~eligible(k))

\* publish(e); drain(now >= e.time) gave [e]; a following drain gave []
C2_Witness ==
  \E i \in HistIdx :
    /\ i + 2 <= Len(bus_history)
    /\ IsPublish(i) /\ IsDrain(i + 1) /\ IsDrain(i + 2)
    /\ bus_history[i + 1].out = <<bus_history[i].ev>>
    /\ bus_history[i + 2].now >= bus_history[i].ev.time
    /\ bus_history[i + 2].out = <<>>

----------------------------------------------------------------------------
(* Claims on the ConnectionManager *)

LogIdx == 1..Len(cm_log)

\* the responses forwarded for the response handed over at position i
ForwardsOf(i) == {k \in 1..Len(cm_router_out) : cm_router_out[k].response = i}

\* C3: a response is accepted iff its session_id is 0 or its attempt is strictly
\* newer than every attempt accepted before for its session (none for a session
\* never seen); a duplicate and an older attempt are discarded.
C3_AcceptIffLegacyOrStrictlyNewer ==
  \A i \in LogIdx :
    cm_log[i].accepted <=>
      \/ cm_log[i].pk.session_id = 0
      \/ \A j \in 1..(i - 1) :
           (cm_log[j].pk.session_id = cm_log[i].pk.session_id) => cm_log[j].pk.attempt < cm_log[i].pk.attempt

\* first acceptance of a new session, then a duplicate discarded, and an older attempt discarded
C3_Witness ==
  \E i, j, k \in LogIdx :
    /\ i < j /\ j < k
    /\ cm_log[i].pk.session_id # 0
    /\ cm_log[j].pk.session_id = cm_log[i].pk.session_id
    /\ cm_log[k].pk.session_id = cm_log[i].pk.session_id
    /\ cm_log[i].accepted /\ cm_log[i].pk.attempt = MaxAttempt
    /\ cm_log[j].pk.attempt = cm_log[i].pk.attempt /\ ~cm_log[j].accepted
    /\ cm_log[k].pk.attempt < cm_log[i].pk.attempt /\ ~cm_log[k].accepted

\* C4: for every (session_id, attempt) with session_id # 0 at most one forwarding
\* message is sent, and it carries the RuleSet of the first response of the pair.
C4_AtMostOneForwardPerAttempt ==
  \A s \in 1..MaxSession, a \in 0..MaxAttempt :
    LET of_pair == {i \in LogIdx : cm_log[i].pk.session_id = s /\ cm_log[i].pk.attempt = a}
        sent == UNION {ForwardsOf(i) : i \in of_pair}
    IN  /\ Cardinality(sent) <= 1
        /\ \A k \in sent :
             /\ \A i \in of_pair : cm_router_out[k].response <= i
             /\ cm_router_out[k].ruleset_id = cm_log[cm_router_out[k].response].pk.ruleset_id

\* the same pair came by storeRuleSet and then by storeRuleSetForApplication: one forward, of the first
C4_Witness ==
  \E i, j \in LogIdx :
    /\ i < j
    /\ cm_log[i].pk.session_id # 0
    /\ cm_log[i].pk.session_id = cm_log[j].pk.session_id
    /\ cm_log[i].pk.attempt = cm_log[j].pk.attempt
    /\ cm_log[i].variant # cm_log[j].variant
    /\ ForwardsOf(i) # {} /\ ForwardsOf(j) = {}

\* C5: a response with session_id = 0 is always accepted and forwarded, whatever
\* its attempt and whatever came before.
C5_LegacyAlwaysForwarded ==
  \A i \in LogIdx :
    cm_log[i].pk.session_id = 0 =>
      /\ cm_log[i].accepted
      /\ Cardinality(ForwardsOf(i)) = 1
      /\ \A k \in ForwardsOf(i) : cm_router_out[k].ruleset_id = cm_log[i].pk.ruleset_id

\* a legacy response, its exact duplicate and an older legacy attempt were all forwarded
C5_Witness ==
  \E i, j, k \in LogIdx :
    /\ i < j /\ j < k
    /\ cm_log[i].pk.session_id = 0 /\ cm_log[j].pk.session_id = 0 /\ cm_log[k].pk.session_id = 0
    /\ cm_log[j].pk.attempt = cm_log[i].pk.attempt
    /\ cm_log[k].pk.attempt < cm_log[i].pk.attempt
    /\ Len(cm_router_out) = 3

----------------------------------------------------------------------------
(* Claims on the RuleEngine.  re_last is the last call, engine.invoked,       *)
(* engine.log and engine.thrown are what that call did.                       *)

Called == re_last.op # "none"

DispatchedIdx == IF Called THEN 1..Len(re_last.dispatched) ELSE {}

\* the handler the three-level lookup selects for e among the registered ones
SelectedLevel(e, tables) ==
  IF <<e.type, e.protocol_spec>> \in tables.exact THEN "exact"
  ELSE IF e.type \in tables.type THEN "type_fallback"
  ELSE IF e.protocol_spec \in tables.protocol THEN "protocol_fallback"
  ELSE "none"

UnknownLogs == {i \in 1..Len(engine.log) : engine.log[i].event_type \in {"unknown_rule_event", "unknown_rule_protocol"}}

\* C6: dispatching an event invokes exactly one handler: the one registered for
\* the exact (kind, family) key if there is one, else the per-kind fallback if
\* there is one, else the per-family fallback; a lower-priority handler is not
\* invoked, and no unknown-event log is written when one of the three matches.
C6_DispatchPrefersExactThenKindThenFamily ==
  \A i \in DispatchedIdx :
    LET e == re_last.dispatched[i]
        level == SelectedLevel(e, re_last.tables)
    IN  (Len(re_last.dispatched) = 1 /\ level # "none") =>
          /\ engine.invoked = <<[level |-> level, type |-> e.type, protocol_spec |-> e.protocol_spec]>>
          /\ UnknownLogs = {}

\* the (kind, family) pairs that have a protocol handler: the default ones
\* (EMIT_PHOTON_REQUEST under every family; the UNKNOWN entry is the diagnostic
\* itself) and whatever has been registered
MatchesProtocolHandler(e, tables) ==
  \/ e.type = "EMIT_PHOTON_REQUEST"
  \/ <<e.type, e.protocol_spec>> \in DefaultHandlerKeys \ {<<"UNKNOWN", "Unknown">>}
  \/ SelectedLevel(e, [tables EXCEPT !.exact = @ \ {<<"UNKNOWN", "Unknown">>}]) # "none"

DiagnosticFor(e) ==
  [event_type |-> IF e.type = "UNKNOWN" THEN "unknown_rule_event" ELSE "unknown_rule_protocol",
   kind |-> e.type, protocol_raw_value |-> e.protocol_raw_value]

\* C7: an event that matches no protocol handler never makes the engine throw
\* and is logged exactly once, as unknown_rule_event when its kind is UNKNOWN
\* and as unknown_rule_protocol with its protocol_raw_value otherwise; an
\* unrecognised raw message given to handleMessage yields exactly one
\* unknown_rule_event line.
C7_UnmatchedEventLoggedOnceNeverThrows ==
  /\ \A i \in DispatchedIdx :
       LET e == re_last.dispatched[i]
       IN  (Len(re_last.dispatched) = 1 /\ ~MatchesProtocolHandler(e, re_last.tables)) =>
             /\ engine.thrown = "none"
             /\ engine.log = <<DiagnosticFor(e)>>
  /\ (Called /\ re_last.op = "handleMessage" /\ re_last.msg.cls = "cMessage") =>
       /\ engine.thrown = "none"
       /\ Len(engine.log) = 1
       /\ engine.log[1].event_type = "unknown_rule_event"

\* C8: an InternalRuleSetForwarding_Application with application_type # 0 is
\* ignored: no runtime is submitted, nothing is thrown, and unknown_rule_protocol
\* is logged with the application_type as protocol_raw_value; with
\* application_type = 0 exactly one runtime is submitted.
C8_ForwardingApplicationIgnoredUnlessTypeZero ==
  \A i \in DispatchedIdx :
    LET e == re_last.dispatched[i]
    IN  (Len(re_last.dispatched) = 1 /\ e.type = "RULESET_FORWARDING_APPLICATION"
           /\ HoldsAlternative(e, "InternalRuleSetForwarding_Application")) =>
          IF e.payload.hint # 0
            THEN /\ engine.runtimes = re_last.runtimes_before
                 /\ engine.thrown = "none"
                 /\ engine.log = <<[event_type |-> "unknown_rule_protocol", kind |-> e.type,
                                    protocol_raw_value |-> to_string(e.payload.hint)]>>
            ELSE /\ engine.runtimes = re_last.runtimes_before + 1
                 /\ engine.thrown = "none"

\* C9: an EMIT_PHOTON_REQUEST event made by the EventBus carries MIM_v1 when
\* the request's MSM flag is clear and MSM_v1 when it is set, and under either
\* family it is handled by the photon-emission handler, and only by it, without
\* any unknown_rule_protocol or unknown_rule_event log.
C9_EmitPhotonRequestHandledUnderEitherFamily ==
  \A i \in DispatchedIdx :
    LET e == re_last.dispatched[i]
    IN  (e.type = "EMIT_PHOTON_REQUEST" /\ HoldsAlternative(e, "EmitPhotonRequest")) =>
          /\ e.protocol_spec = IF e.payload.msm THEN "MSM_v1" ELSE "MIM_v1"
          /\ \E k \in 1..Len(engine.invoked) : engine.invoked[k].type = "EMIT_PHOTON_REQUEST"
          /\ \A k \in 1..Len(engine.invoked) : engine.invoked[k].type = "EMIT_PHOTON_REQUEST"
          /\ \E k \in 1..Len(engine.effects) : engine.effects[k].call = "countNumFreeQubits"
          /\ UnknownLogs = {}

\* the emission timer came back under the MSM_v1 family and a photon was emitted
C9_Witness ==
  /\ Called /\ re_last.op = "handleMessage"
  /\ re_last.msg.id = TimerId /\ re_last.msg.is_self
  /\ Len(re_last.dispatched) = 1
  /\ re_last.dispatched[1].type = "EMIT_PHOTON_REQUEST"
  /\ re_last.dispatched[1].protocol_spec = "MSM_v1"
  /\ \E k \in 1..Len(engine.effects) : engine.effects[k].call = "EmitPhoton"
  /\ Len(engine.invoked) = 1

\* C10: handleMessage releases the raw message at its end unless keep_message
\* is set, and keep_message is set iff some drained event has channel
\* INTERNAL_TIMER or keep_source; so a self-scheduled message of any kind is
\* never released by handleMessage.
C10_MessageKeptIffTimerOrKeepSource ==
  (Called /\ re_last.op = "handleMessage" /\ engine.thrown = "none") =>
    /\ re_last.deleted <=> ~re_last.keep_message
    /\ re_last.keep_message <=>
         \E i \in 1..Len(re_last.drained) :
           re_last.drained[i].channel = "INTERNAL_TIMER" \/ re_last.drained[i].keep_source
    /\ re_last.msg.is_self => ~re_last.deleted

----------------------------------------------------------------------------
(* Events published while handleMessage dispatches *)

\* C11: an event published to the bus while the drained events of a handleMessage
\* call are being dispatched is not dispatched (nor drained) by that call; it is
\* in the queue when the call returns, for the next call to drain.
C11_PublishedDuringDispatchHeldForNextCall ==
  re_last.op = "handleMessage" =>
    \A i \in DOMAIN re_last.published :
      /\ re_last.published[i] \notin SeqSet(re_last.dispatched)
      /\ re_last.published[i] \notin SeqSet(re_last.drained)
      /\ re_last.published[i] \in SeqSet(event_queue)

\* a call whose handlers published an event, and which dispatched an event held by an earlier call
C11_Witness ==
  /\ re_last.op = "handleMessage"
  /\ re_last.published # <<>>
  /\ \E i \in DOMAIN re_last.dispatched : re_last.dispatched[i].uid \in 1..(re_last.n - 1)

----------------------------------------------------------------------------
(* The link protocols on the qubits *)

\* the entries the last operation added at the end of the store
AddedToStore ==
  SubSeq(link.bell_pair_store, Len(link_last.before.bell_pair_store) + 1, Len(link.bell_pair_store))

C13_MsmResultForUnknownPhotonChangesNothing ==
  (link_last.op = "MSM_RESULT" /\ link_last.msg.photon_index \notin DOMAIN link_last.before.qubit_postprocess_info) =>
    /\ link.effects = <<>>
    /\ link.busy = link_last.before.busy
    /\ link.allocated = link_last.before.allocated
    /\ link.bell_pair_store = link_last.before.bell_pair_store

\* such an MSM_RESULT arrived while another photon index was awaiting post-processing and its qubit was busy
C13_Witness ==
  /\ link_last.op = "MSM_RESULT"
  /\ link_last.msg.photon_index \notin DOMAIN link_last.before.qubit_postprocess_info
  /\ DOMAIN link_last.before.qubit_postprocess_info # {}
  /\ \E r \in QubitRecords : link.busy[r]

\* the MSM_RESULT last processed reported success for a photon index in qubit_postprocess_info
MsmSuccessForKnownPhoton ==
  /\ link_last.op = "MSM_RESULT"
  /\ link_last.msg.success
  /\ link_last.msg.photon_index \in DOMAIN link_last.before.qubit_postprocess_info

\* C14: on an MSM_RESULT reporting success for a photon index in
\* qubit_postprocess_info, a Z gate is applied to the local qubit exactly when the
\* local and the partner corrections differ and the own address is less than the
\* partner's; no other call is made, and the qubit is then one more entry of the
\* store under the partner's address.
C14_ZGateIffPhiMinusAndYoungerThenStored ==
  MsmSuccessForKnownPhoton =>
    LET before == link_last.before
        qubit_info == before.qubit_postprocess_info[link_last.msg.photon_index]
        rec == <<"QNIC_RP", qubit_info.qubit_index>>
        z == [call |-> "applyZGate", qubit |-> rec]
    IN  /\ link.effects = IF qubit_info.correction_operation # link_last.msg.correction_operation
                               /\ parentAddress < before.partner_address
                            THEN <<z>> ELSE <<>>
        /\ link.bell_pair_store = Append(before.bell_pair_store, [partner |-> before.partner_address, qubit |-> rec])

\* the corrections differed: once with the partner the older node (Z applied), and the case is reached
C14_Witness ==
  /\ MsmSuccessForKnownPhoton
  /\ link.effects # <<>>
  /\ link_last.before.partner_address = 3

\* the corrections differed and the partner was the younger node
C14_WitnessOlder ==
  /\ MsmSuccessForKnownPhoton
  /\ link_last.before.qubit_postprocess_info[link_last.msg.photon_index].correction_operation
       # link_last.msg.correction_operation
  /\ link_last.before.partner_address = 1

\* C15: every qubit record in the store is busy (so a stored record is made
\* not-busy only by an operation that also takes it out of the store).
C15_StoredQubitsAreBusy ==
  \A i \in DOMAIN link.bell_pair_store : link.busy[link.bell_pair_store[i].qubit]

\* C16: no qubit record has two entries in the store, under one partner or under two.
C16_QubitStoredAtMostOnce ==
  \A i, j \in DOMAIN link.bell_pair_store :
    link.bell_pair_store[i].qubit = link.bell_pair_store[j].qubit => i = j

----------------------------------------------------------------------------
(* runtime/RuntimeFacade.cc: allocateResources *)

\* the bindings of every runtime, one after the other
RECURSIVE BindingsFrom(_, _)
BindingsFrom(runtimes, rt) ==
  IF rt > Len(runtimes) THEN <<>> ELSE runtimes[rt].qubits \o BindingsFrom(runtimes, rt + 1)

\* the bindings the last operation added to runtime rt
NewBindings(rt) ==
  SubSeq(link.runtimes[rt].qubits, Len(link_last.before.runtimes[rt].qubits) + 1, Len(link.runtimes[rt].qubits))

C18_ReserveReleaseAffectOnlyTheirInterface ==
  cm_last.op \in {"reserveQnic", "releaseQnic"} =>
    /\ isQnicBusy(reserved_qnics, cm_last.qnic_address) <=> (cm_last.op = "reserveQnic")
    /\ \A other \in QnicAddresses \ {cm_last.qnic_address} :
         isQnicBusy(reserved_qnics, other) <=> isQnicBusy(cm_last.before, other)

\* reserve(q) then release(q) while an interface reserved earlier stays busy
C18_Witness ==
  /\ cm_last.op = "releaseQnic" /\ cm_last.prev_op = "reserveQnic"
  /\ cm_last.prev_qnic = cm_last.qnic_address
  /\ ~isQnicBusy(reserved_qnics, cm_last.qnic_address)
  /\ \E other \in QnicAddresses \ {cm_last.qnic_address} :
       /\ isQnicBusy(cm_last.before, other)
       /\ cm_last.before[1] = other

ResponsesOfLastCall == SubSeq(cm_router_out, cm_last.sent_before + 1, Len(cm_router_out))

\* C20: for a request whose path has k intermediate nodes, the responder sends
\* exactly k + 2 ConnectionSetupResponses, each to a distinct node of
\* {initiator, intermediates, responder}, each with that node's RuleSet and a
\* ruleset_id equal to the identifier the unique-id generator returned for
\* this connection.
C20_OneResponsePerParticipatingNode ==
  cm_last.op = "respondToRequest" =>
    LET sent == ResponsesOfLastCall
        stack == cm_last.pk.stack_of_QNodeIndexes
        k == Len(stack) - 1
    IN  /\ Len(sent) = k + 2
        /\ \A i, j \in 1..Len(sent) : i # j => sent[i].DestAddr # sent[j].DestAddr
        /\ {sent[i].DestAddr : i \in 1..Len(sent)} =
             {stack[i] : i \in 1..Len(stack)} \cup {cm_last.pk.actual_destAddr}
        /\ \A i \in 1..Len(sent) :
             /\ sent[i].cls = "ConnectionSetupResponse"
             /\ sent[i].ruleset_owner_address = sent[i].DestAddr
             /\ sent[i].ruleset_id = cm_last.ruleset_id

\* the responder answered a request that crossed two swappers (2 -> 3 -> 4 -> 5)
\* after having answered another one under a different id
C20_Witness ==
  /\ cm_last.op = "respondToRequest" /\ cm_last.n = 2
  /\ cm_last.pk.stack_of_QNodeIndexes = <<2, 3, 4>>
  /\ Len(ResponsesOfLastCall) = 4
  /\ cm_last.sent_before > 0
  /\ cm_router_out[1].ruleset_id # cm_last.ruleset_id


\* C21: in the RuleSets synthesized for one request the swap rules carry the
\* shared rule tags 1, 2, ... in the order they are emitted (the order of the
\* swappers on the path), and for every swap rule with tag t at swapper s
\* between partners L and R the RuleSets of L and of R each hold a
\* swapping-correction rule from s whose receive tag is t.
C21_SwapTagsNumberedAndSharedWithCorrectors ==
  cm_last.op = "respondToRequest" =>
    LET sent == ResponsesOfLastCall
        SwapsAt(i) == {r \in sent[i].rules : r.type = "swapping"}
        RuleSetsOf(node) == {sent[i].rules : i \in {j \in 1..Len(sent) : sent[j].DestAddr = node}}
    IN  /\ \A i \in 1..Len(sent) :
             IF 1 < i /\ i < Len(sent)
               THEN /\ Cardinality(SwapsAt(i)) = 1
                    /\ \A r \in SwapsAt(i) : r.shared_rule_tag = i - 1 /\ r.swapper = sent[i].DestAddr
               ELSE SwapsAt(i) = {}
        /\ \A i \in 1..Len(sent) : \A r \in SwapsAt(i) :
             \A partner \in {r.left, r.right} :
               /\ RuleSetsOf(partner) # {}
               /\ \A rules \in RuleSetsOf(partner) :
                    \E c \in rules : /\ c.type = "swapping_correction"
                                     /\ c.partner_address = r.swapper
                                     /\ c.receive_tag = r.shared_rule_tag

\* the chain 2 -> 3 -> 4 -> 5: node 3 swaps between 2 and 5 under tag 1, node 4
\* between 3 and 5 under tag 2, and node 5 holds both corrections
C21_Witness ==
  /\ cm_last.op = "respondToRequest"
  /\ cm_last.pk.stack_of_QNodeIndexes = <<2, 3, 4>>
  /\ Len(ResponsesOfLastCall) = 4
  /\ \E r \in ResponsesOfLastCall[2].rules :
       r.type = "swapping" /\ r.shared_rule_tag = 1 /\ r.left = 2 /\ r.right = 5
  /\ \E r \in ResponsesOfLastCall[3].rules :
       r.type = "swapping" /\ r.shared_rule_tag = 2 /\ r.left = 3 /\ r.right = 5
  /\ Cardinality(ResponsesOfLastCall[4].rules) = 3
  /\ Cardinality(ResponsesOfLastCall[1].rules) = 2
  /\ Cardinality(ResponsesOfLastCall[2].rules) = 2


Strip(e) == [e EXCEPT !.uid = 0]

StripSeq(s) == [i \in 1..Len(s) |-> Strip(s[i])]

\* C22: what drain(now) returns is determined by the set of queued events
\* alone: whatever the order in which the same events were published, also
\* events that share both time and event_number, the returned sequence is
\* the same.
C22_DrainOrderDeterminedByEventSet ==
  \A i \in HistIdx : IsDrain(i) =>
    \A s \in SortOutcomes(bus_history[i].before) :
      StripSeq(SubSeq(s, 1, DrainCount(s, bus_history[i].now))) = StripSeq(bus_history[i].out)

RawPublishes == {i \in HistIdx : IsPublish(i) /\ bus_history[i].raw}

\* C23: no two events produced by publish(raw_message, now) on one bus carry
\* the same (time, event_number) pair.
C23_RawEventsUniqueByTimeAndEventNumber ==
  \A i, j \in RawPublishes : i # j =>
    \/ bus_history[i].ev.time # bus_history[j].ev.time
    \/ bus_history[i].ev.event_number # bus_history[j].ev.event_number

\* C24: publish(raw_message, now) enqueues exactly one event; for a null
\* message it is an UNKNOWN event with an empty payload, and for a message
\* whose class has neither a built-in decoder nor a registered translator it
\* is an UNKNOWN event with protocol family Unknown.
C24_PublishEnqueuesOneEventUnknownWhenUndecodable ==
  \A i \in RawPublishes :
    LET h == bus_history[i]
    IN  /\ (i = Len(bus_history) => event_queue = Append(h.before, h.ev))
        /\ (h.msg.cls = "null" => h.ev.type = "UNKNOWN" /\ h.ev.payload = Monostate)
        /\ (h.msg.cls # "null" /\ h.msg.cls \notin BuiltinClasses /\ h.msg.cls \notin DOMAIN h.reg =>
              h.ev.type = "UNKNOWN" /\ h.ev.protocol_spec = "Unknown")

\* a null message, a plain cMessage and a message of a class whose translator
\* was registered afterwards were published, the first two as UNKNOWN events
C24_Witness ==
  /\ Len(event_queue) = 3
  /\ \E i, j \in RawPublishes :
       /\ bus_history[i].msg.cls = "null" /\ bus_history[i].ev.type = "UNKNOWN"
       /\ bus_history[j].msg.cls = "CustomMessage" /\ bus_history[j].ev.type = "STOP_EMITTING"
  /\ \E k \in RawPublishes :
       /\ bus_history[k].msg.cls = "omnetpp::cMessage" /\ bus_history[k].ev.type = "UNKNOWN"
       /\ bus_history[k].ev.channel = "EXTERNAL"


\* C25: assign_message_to_ruleset(ruleset_id, shared_rule_tag, content) changes
\* nothing when no runtime has that ruleset_id: message queues, partners and
\* qubit bindings of every runtime stay as they were; otherwise the message
\* goes to the runtime with that ruleset_id and to no other.
C25_AssignMessageOnlyToMatchingRuntime ==
  link_last.op = "assignMessageToRuleSet" =>
    LET before == link_last.before.runtimes
        after == link.runtimes
        matching == {rt \in DOMAIN before : before[rt].id = link_last.msg.ruleset_id}
    IN  /\ DOMAIN after = DOMAIN before
        /\ link.allocated = link_last.before.allocated
        /\ link.bell_pair_store = link_last.before.bell_pair_store
        /\ \A rt \in DOMAIN before \ matching : after[rt] = before[rt]
        /\ \A rt \in matching :
             /\ after[rt].partners = before[rt].partners
             /\ after[rt].qubits = before[rt].qubits
             /\ after[rt].messages =
                  Append(before[rt].messages, [shared_rule_tag |-> link_last.msg.shared_rule_tag,
                                               msg_content |-> link_last.msg.msg_content])

\* a reply for a RuleSet that does not exist reached a facade whose runtime
\* holds a bound qubit
C25_Witness ==
  /\ link_last.op = "assignMessageToRuleSet"
  /\ link_last.msg.ruleset_id = 9999
  /\ Len(link.runtimes) = 1
  /\ link.runtimes[1].qubits # <<>>
  /\ link.runtimes[1].messages = <<>>

\* the kinds a backend's applyOperation knows, after the normalisation the
\* dense-operator backend applies
SupportedKinds(instance) ==
  IF instance = "QutipBackend"
    THEN {Kind_noop, Kind_unitary, Kind_measurement, Kind_noise} \cup kSupportedAdvancedKinds
    ELSE {Kind_unitary, Kind_measurement, Kind_noise}

HasCategory(message, category) ==
  \E i \in 1..Len(message.literals) : CategoryOf(message.literals[i]) = category

UnsupportedKindReported(instance) ==
  (/\ backend_last.op = "applyOperation"
   /\ backend_last.instance = instance
   /\ backend_last.operation.kind # <<>>
   /\ normalizeAdvancedKind(backend_last.operation.kind) \notin SupportedKinds(instance))
  => /\ backend_last.result.success = FALSE
     /\ HasCategory(backend_last.result.message, "unsupported_kind")

\* C26: on the error-basis backend and on the dense-operator backend alike,
\* applyOperation with a kind the backend does not support returns
\* success = false and a message that contains [category=unsupported_kind].
C26_UnsupportedKindReportedByEveryBackend ==
  /\ UnsupportedKindReported("QutipBackend")
  /\ UnsupportedKindReported("ErrorBasisBackend")

\* C27: the capability check of the dense-operator backend runs at most once
\* and its outcome is kept; once it has failed, every operation that reaches
\* the worker returns a failure naming [category=qutip_import], runs no
\* check and starts no worker.
C27_CapabilityCheckedOnceAndFailureCached ==
  /\ backend.checks_run <= 1
  /\ backend_last.op # "none" =>
       /\ backend_last.before.qutip_runtime_checked_ =>
            /\ backend.qutip_runtime_checked_
            /\ backend.qutip_runtime_available_ = backend_last.before.qutip_runtime_available_
            /\ backend.checks_run = backend_last.before.checks_run
       /\ (/\ backend_last.worker_backed
           /\ backend_last.before.qutip_runtime_checked_
           /\ ~backend_last.before.qutip_runtime_available_)
          => /\ backend_last.result.success = FALSE
             /\ HasCategory(backend_last.result.message, "qutip_import")
             /\ backend.workers_run = backend_last.before.workers_run

C27_Witness ==
  /\ backend_last.op = "applyOperation"
  /\ backend_last.instance = "QutipBackend"
  /\ backend_last.worker_backed
  /\ backend_last.before.qutip_runtime_checked_
  /\ ~backend_last.before.qutip_runtime_available_
  /\ backend_last.before.checks_run = 1
  /\ HasCategory(backend_last.result.message, "qutip_import")

\* the positions of the calls of one kind among the calls of the last operation
CallsOf(call) == {i \in DOMAIN link.effects : link.effects[i].call = call}

\* the entries the last operation added to the store
InsertedByLastCall ==
  {i \in DOMAIN link.bell_pair_store :
     \A j \in DOMAIN link_last.before.bell_pair_store :
       link_last.before.bell_pair_store[j] # link.bell_pair_store[i]}

Handled(kind) ==
  /\ re_last.op \in {"handleMessage", "registeredHandler"}
  /\ Len(re_last.dispatched) = 1
  /\ re_last.dispatched[1].type = kind

\* the calls the handler of the last call made: handleMessage makes one call
\* before it and one per interface and one more after it
HandlerEffects ==
  IF re_last.op = "handleMessage"
    THEN SubSeq(engine.effects, 2, Len(engine.effects) - (number_of_qnics + number_of_qnics_r + number_of_qnics_rp) - 1)
    ELSE engine.effects

PendingTimers == {m \in engine.scheduled : m.id = TimerId}

\* C29: handling BSM_TIMING cancels the emission timer, then reinitializes
\* and releases each qubit of the emitted log and empties the log, and then
\* schedules the timer; afterwards exactly one emission timer is pending.
C29_BsmTimingCancelsFreesThenSchedules ==
  Handled("BSM_TIMING") =>
    /\ engine.thrown = "none"
    /\ Len(HandlerEffects) = re_last.emitted_before + 2
    /\ HandlerEffects[1].call = "cancelEvent"
    /\ \A i \in 2..(re_last.emitted_before + 1) : HandlerEffects[i].call = "ReInitialize_StationaryQubit"
    /\ HandlerEffects[re_last.emitted_before + 2].call = "scheduleAt"
    /\ engine.emitted = 0
    /\ Cardinality(PendingTimers) = 1
    /\ \A m \in PendingTimers : m.cls = "EmitPhotonRequest" /\ ~m.msm /\ engine.timer_first

C29_Witness ==
  /\ Handled("BSM_TIMING")
  /\ re_last.timer_before
  /\ re_last.emitted_before > 0
  /\ Cardinality(PendingTimers) = 1

\* C30: a request to emit that is not an MSM one and finds no free qubit
\* signals no emission, adds nothing to the emitted log and does not
\* schedule the request again.
C30_TrainStopsWithoutFreeQubit ==
  (/\ Handled("EMIT_PHOTON_REQUEST")
   /\ ~re_last.dispatched[1].payload.msm
   /\ re_last.free = 0)
  => /\ engine.thrown = "none"
     /\ \A i \in DOMAIN HandlerEffects : HandlerEffects[i].call \notin {"EmitPhoton", "scheduleAt"}
     /\ engine.emitted = re_last.emitted_before
     /\ \A m \in engine.scheduled : m.id # re_last.dispatched[1].payload.id

\* C31: a train that BSM_TIMING starts with N >= 1 free qubits and that
\* nothing but the timer disturbs sends N pulses: the first one alone has
\* the BEGIN bit, the N-th one alone has the END bit, and the timer is
\* scheduled again after every pulse but the N-th, after which none is pending.
C31_TrainEmitsOnePulsePerFreeQubit ==
  (link.train_clean /\ link.train_free >= 1) =>
    /\ Len(link.train) <= link.train_free
    /\ \A i \in DOMAIN link.train :
         /\ link.train[i].first <=> (i = 1)
         /\ link.train[i].last <=> (i = link.train_free)
    /\ \A i, j \in DOMAIN link.train : i # j => link.train[i].qubit_index # link.train[j].qubit_index
    /\ link.timer.scheduled <=> (Len(link.train) < link.train_free)

C31_Witness ==
  /\ link.train_clean
  /\ link.train_free = NumQubits
  /\ Len(link.train) = link.train_free
  /\ ~link.timer.scheduled
  /\ link_last.op = "EMIT_PHOTON_REQUEST"

\* the calls of one kind that the handler of the last call made
HandlerCalls(call) == {i \in DOMAIN HandlerEffects : HandlerEffects[i].call = call}

\* C32: an MSM request to emit adds exactly one to photon_index_counter and
\* is always scheduled again; with no free qubit it emits no photon and
\* sends exactly one MSMResult out of the router port with success = false,
\* correction I and the incremented counter as photon index.
C32_MsmRequestCountsAndReschedules ==
  (Handled("EMIT_PHOTON_REQUEST") /\ re_last.dispatched[1].payload.msm) =>
    /\ engine.thrown = "none"
    /\ engine.photon_index_counter = re_last.counter_before + 1
    /\ Cardinality(HandlerCalls("scheduleAt")) = 1
    /\ \E m \in engine.scheduled : m.id = re_last.dispatched[1].payload.id
    /\ re_last.free = 0 =>
         /\ HandlerCalls("EmitPhoton") = {}
         /\ Cardinality(HandlerCalls("send")) = 1
         /\ \A i \in HandlerCalls("send") :
              /\ HandlerEffects[i].cls = "MSMResult"
              /\ HandlerEffects[i].gate = "RouterPort$o"
              /\ HandlerEffects[i].success = FALSE
              /\ HandlerEffects[i].correction_operation = "I"
              /\ HandlerEffects[i].photon_index = re_last.counter_before + 1
    /\ re_last.free # 0 =>
         /\ Cardinality(HandlerCalls("EmitPhoton")) = 1
         /\ HandlerCalls("send") = {}

C32_Witness ==
  /\ Handled("EMIT_PHOTON_REQUEST")
  /\ re_last.dispatched[1].payload.msm
  /\ re_last.free = 0
  /\ re_last.counter_before >= 1
  /\ HandlerCalls("send") # {}

\* the calls of one kind among the calls of the last operation on the link
LinkCalls(call) == {i \in DOMAIN link.effects : link.effects[i].call = call}

\* the qubit handleSingleClickResult reads: qubit_info_map[iteration_index],
\* qubit 0 when the map has no such entry
ClickedQubit(before) ==
  IF before.iteration_index \in DOMAIN before.qubit_info_map
    THEN before.qubit_info_map[before.iteration_index] ELSE 0

\* C33: a SINGLE_CLICK_RESULT sends exactly one MSMResult out of the router
\* port with the local success flag and correction; on success it records
\* the qubit and the correction under the current photon index and adds one
\* to iteration_index; on failure it reinitializes and releases the qubit
\* and changes neither qubit_postprocess_info nor iteration_index.
C33_SingleClickSendsOneResultAndBooks ==
  link_last.op = "SINGLE_CLICK_RESULT" =>
    LET before == link_last.before
        click == link_last.msg
        rec == <<"QNIC_RP", ClickedQubit(before)>>
    IN  /\ Cardinality(LinkCalls("send")) = 1
        /\ \A i \in LinkCalls("send") :
             /\ link.effects[i].cls = "MSMResult"
             /\ link.effects[i].gate = "RouterPort$o"
             /\ link.effects[i].success = click.success
             /\ link.effects[i].correction_operation = click.correction_operation
             /\ link.effects[i].photon_index = before.photon_index_counter
        /\ link.bell_pair_store = before.bell_pair_store
        /\ link.photon_index_counter = before.photon_index_counter
        /\ click.success =>
             /\ DOMAIN link.qubit_postprocess_info =
                  DOMAIN before.qubit_postprocess_info \cup {before.photon_index_counter}
             /\ link.qubit_postprocess_info[before.photon_index_counter] =
                  [qubit_index |-> rec[2], correction_operation |-> click.correction_operation]
             /\ \A k \in DOMAIN before.qubit_postprocess_info :
                  k # before.photon_index_counter =>
                    link.qubit_postprocess_info[k] = before.qubit_postprocess_info[k]
             /\ link.iteration_index = before.iteration_index + 1
             /\ link.busy = before.busy
             /\ LinkCalls("ReInitialize_StationaryQubit") = {}
        /\ ~click.success =>
             /\ link.qubit_postprocess_info = before.qubit_postprocess_info
             /\ link.iteration_index = before.iteration_index
             /\ Cardinality(LinkCalls("ReInitialize_StationaryQubit")) = 1
             /\ \A i \in LinkCalls("ReInitialize_StationaryQubit") : link.effects[i].qubit = rec
             /\ link.busy = [before.busy EXCEPT ![rec] = FALSE]

\* a failed click released the qubit an MSM emission had taken
C33_Witness ==
  /\ link_last.op = "SINGLE_CLICK_RESULT"
  /\ ~link_last.msg.success
  /\ link_last.before.busy[<<"QNIC_RP", ClickedQubit(link_last.before)>>]
  /\ ~link.busy[<<"QNIC_RP", ClickedQubit(link_last.before)>>]
  /\ link_last.before.photon_index_counter >= 1

\* the MSM_RESULT last processed reported failure for a photon index in qubit_postprocess_info
MsmFailureForKnownPhoton ==
  /\ link_last.op = "MSM_RESULT"
  /\ ~link_last.msg.success
  /\ link_last.msg.photon_index \in DOMAIN link_last.before.qubit_postprocess_info

\* C34: on an MSM_RESULT that reports failure for a photon index in
\* qubit_postprocess_info the local qubit is reinitialized and made not busy,
\* no gate is applied and the store gains nothing.
C34_PartnerFailureReleasesQubit ==
  MsmFailureForKnownPhoton =>
    LET before == link_last.before
        rec == <<"QNIC_RP", before.qubit_postprocess_info[link_last.msg.photon_index].qubit_index>>
    IN  /\ link.effects = <<[call |-> "ReInitialize_StationaryQubit", qubit |-> rec]>>
        /\ link.busy = [before.busy EXCEPT ![rec] = FALSE]
        /\ link.bell_pair_store = before.bell_pair_store
        /\ link.allocated = before.allocated

C34_Witness ==
  /\ MsmFailureForKnownPhoton
  /\ link_last.before.busy[<<"QNIC_RP", link_last.before.qubit_postprocess_info[link_last.msg.photon_index].qubit_index>>]
  /\ link.effects # <<>>

----------------------------------------------------------------------------
(* Channel and keep_source of the events the bus makes *)

\* C35: every event publish(raw_message, now) makes from a non-null message
\* has channel INTERNAL_TIMER iff the message is self-scheduled and EXTERNAL
\* otherwise, and has keep_source set whenever its channel is INTERNAL_TIMER
\* or its kind is EMIT_PHOTON_REQUEST.
C35_ChannelFromSelfMessageAndKeepSource ==
  \A i \in RawPublishes :
    bus_history[i].msg.cls # "null" =>
      /\ bus_history[i].ev.channel = "INTERNAL_TIMER" <=> bus_history[i].msg.is_self
      /\ bus_history[i].ev.channel = "EXTERNAL" <=> ~bus_history[i].msg.is_self
      /\ (bus_history[i].ev.channel = "INTERNAL_TIMER" \/ bus_history[i].ev.type = "EMIT_PHOTON_REQUEST")
           => bus_history[i].ev.keep_source

\* an emit request from outside was published after a self-scheduled message
\* that a registered translator decoded
C35_Witness ==
  \E i, j \in RawPublishes :
    /\ i < j
    /\ bus_history[i].msg.is_self /\ bus_history[i].ev.type = "STOP_EMITTING"
    /\ bus_history[i].ev.keep_source
    /\ ~bus_history[j].msg.is_self /\ bus_history[j].ev.type = "EMIT_PHOTON_REQUEST"
    /\ bus_history[j].ev.channel = "EXTERNAL" /\ bus_history[j].ev.keep_source

----------------------------------------------------------------------------
(* The Z correction at the two ends of an MSM link *)

\* the results the two ends have processed for one photon index on which both had succeeded
BothSucceeded(d, e) ==
  /\ d.at = "left" /\ e.at = "right"
  /\ d.msg.photon_index = e.msg.photon_index
  /\ d.known /\ e.known
  /\ d.msg.success /\ e.msg.success

\* C36: when two nodes with distinct addresses both succeeded on a photon
\* index and each has processed the other's MSM_RESULT, exactly one of them
\* applied the Z gate if their corrections differ, the one with the smaller
\* address, and neither did if the corrections are equal; both inserted their
\* qubit into the store.
C36_ExactlyOneEndAppliesZ ==
  \A d, e \in pair.done :
    BothSucceeded(d, e) =>
      /\ d.inserted /\ e.inserted
      /\ d.local # e.local =>
           /\ d.z # e.z
           /\ d.z <=> pair.address["left"] < pair.address["right"]
           /\ e.z <=> pair.address["right"] < pair.address["left"]
      /\ d.local = e.local => ~d.z /\ ~e.z

\* both ends succeeded with different corrections, and the right end, of the
\* smaller address, applied the gate
C36_Witness ==
  \E d, e \in pair.done :
    /\ BothSucceeded(d, e)
    /\ d.local # e.local
    /\ d.msg.correction_operation = e.local /\ e.msg.correction_operation = d.local
    /\ pair.address["right"] < pair.address["left"]
    /\ e.z /\ ~d.z

C36_WitnessEqual ==
  \E d, e \in pair.done : BothSucceeded(d, e) /\ d.local = e.local /\ d.inserted /\ e.inserted

----------------------------------------------------------------------------
(* The queue of the bus between two messages *)

\* C37: when events enter the bus only through the publish(msg, simTime())
\* of handleMessage and simulation time does not go back, the queue of the
\* bus is empty after every handleMessage call (and so holds no event whose
\* payload is a message that a call has released).
C37_QueueEmptyBetweenMessages ==
  /\ event_queue = <<>>
  /\ re_last.op = "handleMessage" => Len(re_last.drained) = 1 /\ re_last.drained[1].time = re_last.now

\* a second message was handled and released, and its event had been drained
C37_Witness ==
  /\ re_last.op = "handleMessage"
  /\ re_last.n >= 2
  /\ re_last.deleted
  /\ Len(re_last.drained) = 1
  /\ re_last.drained[1].payload = re_last.msg
  /\ event_queue = <<>>

----------------------------------------------------------------------------
(* The bookkeeping of the qubits an MSM emission has taken *)

\* the qubits of the interface that msm_info refers to
ReferencedByMsmInfo ==
  (IF link.iteration_index \in DOMAIN link.qubit_info_map
     THEN {link.qubit_info_map[link.iteration_index]} ELSE {})
  \cup {link.qubit_postprocess_info[k].qubit_index : k \in DOMAIN link.qubit_postprocess_info}

StoredQubits == {link.bell_pair_store[i].qubit : i \in DOMAIN link.bell_pair_store}

\* C38: every QNIC_RP qubit that is busy and not in the store is the qubit of
\* qubit_info_map[iteration_index] or of an entry of qubit_postprocess_info;
\* a second MSM emission before the click of the first does not leave the
\* first qubit busy and unreferenced.
C38_TakenQubitStaysReferenced ==
  \A r \in QubitRecords :
    (r[1] = "QNIC_RP" /\ link.busy[r] /\ r \notin StoredQubits) => r[2] \in ReferencedByMsmInfo

----------------------------------------------------------------------------
(* The deduplication record of a session *)

\* C39: the latest attempt recorded for a session never decreases, and the
\* record of a session changes only in a call that accepts a response of
\* that session; a discarded response, a response with session_id 0 and a
\* response of another session leave it as it was.
C39_RecordChangesOnlyByAcceptedResponse ==
  [][\A s \in 0..MaxSession :
       LET old == ResponseStateOf(connection_setup_response_state, s)
           new == ResponseStateOf(connection_setup_response_state', s)
       IN  /\ new.latest_attempt >= old.latest_attempt
           /\ new # old =>
                /\ Len(cm_log') = Len(cm_log) + 1
                /\ cm_log'[Len(cm_log')].pk.session_id = s
                /\ cm_log'[Len(cm_log')].accepted
                /\ s # 0
                /\ new.latest_attempt = cm_log'[Len(cm_log')].pk.attempt]_vars

\* a session accepted its attempts 0 and 1, then a stale response of the
\* session and nothing else came, and the record still holds attempt 1
C39_Witness ==
  \E i, j, k \in LogIdx :
    /\ i < j /\ j < k
    /\ cm_log[i].pk.session_id # 0
    /\ cm_log[j].pk.session_id = cm_log[i].pk.session_id
    /\ cm_log[k].pk.session_id = cm_log[i].pk.session_id
    /\ cm_log[i].accepted /\ cm_log[j].accepted /\ ~cm_log[k].accepted
    /\ cm_log[i].pk.attempt < cm_log[j].pk.attempt
    /\ cm_log[k].pk.attempt < cm_log[j].pk.attempt
    /\ connection_setup_response_state[cm_log[i].pk.session_id].latest_attempt = cm_log[j].pk.attempt

----------------------------------------------------------------------------
(* The emission timer is scheduled at most once *)

\* C40: over every interleaving of BSM_TIMING, EPPS_TIMING and
\* EMIT_PHOTON_REQUEST events scheduleAt is never called on the emission
\* timer while it is scheduled (the kernel would raise cRuntimeError), and
\* at most one firing of the timer is pending.
C40_TimerNeverScheduledTwice ==
  /\ Cardinality(PendingTimers) <= 1
  /\ (Handled("BSM_TIMING") \/ Handled("EPPS_TIMING") \/ Handled("EMIT_PHOTON_REQUEST")) =>
       /\ engine.thrown = "none"
       /\ Cardinality(HandlerCalls("scheduleAt")) <= 1

\* an EPPS timing notification came while the timer was pending, and the
\* timer is pending once, for an MSM train
C40_Witness ==
  /\ Handled("EPPS_TIMING")
  /\ re_last.timer_before
  /\ HandlerCalls("cancelEvent") # {}
  /\ HandlerCalls("scheduleAt") # {}
  /\ Cardinality(PendingTimers) = 1
  /\ \A m \in PendingTimers : m.msm

\* the timer fired and its handler scheduled it again
C40_WitnessFiring ==
  /\ Handled("EMIT_PHOTON_REQUEST")
  /\ re_last.dispatched[1].payload.id = TimerId
  /\ HandlerCalls("scheduleAt") # {}
  /\ Cardinality(PendingTimers) = 1

====
